---- MODULE Spec2Model ----
(***************************************************************************)
(* Model of the fluxcd controller host (libs/utils/cap), its shutdown      *)
(* signal (libs/utils/cap/src/signals.rs), the metrics recorder            *)
(* (libs/utils/cops/src/metrics.rs), the reconcile request annotation      *)
(* (libs/meta/src/annotations.rs), the str_enum! macro with its enums      *)
(* (libs/utils/macros, libs/meta, libs/acl) and Duration                   *)
(* (libs/meta/src/time_types/duration.rs).                                 *)
(*                                                                         *)
(* Text is modelled as a sequence of one-character strings, so that        *)
(* format!("{group}/{kind}") is a real concatenation and a comparison of   *)
(* two texts compares them character by character.                         *)
(***************************************************************************)
EXTENDS Integers, Sequences, FiniteSets, TLC

VARIABLES
  \* ---- ControllerApp / cli (cap/src/lib.rs, cap/src/cli.rs)
  controllers,   \* ControllerApp.controllers: Vec<DynController>
  pc,            \* position of ControllerApp::main
  telemetry,     \* process-wide telemetry: "down" | "up" | "torn"
  cmd,           \* the parsed Command handed to Command::run (NoCmd before)
  selected,      \* index of the adapter found by `crd <name>` (0: none)
  crdCalls,      \* per registry index: how often DynController::crd ran
  stdout,        \* lines printed with println!
  result,        \* how main ended: "none" | "ok" | "error" | "panic" | "exit"
  registered,    \* history: the types given to controller(..), in call order
  startCalls,    \* per registry index: how often the adapter's factory ran
  trace,         \* history: the steps main has taken, in order
  \* ---- Signal / SharedSignal (cap/src/signals.rs)
  pending,       \* signal numbers received by Signals, not yet read
  shared,        \* state of the Shared future: "idle" | "complete"
  handles,       \* clones of the SharedSignal: id -> [inner, polled, born]
  delivered,     \* history: number of termination signals received
  resolutions,   \* history: number of idle -> complete transitions
  \* ---- Recorder (cops/src/metrics.rs)
  condition,     \* GaugeVec: <<kind,name,namespace,type,status>> -> value
  suspend,       \* GaugeVec: <<kind,name,namespace>> -> value
  duration,      \* HistogramVec: <<kind,name,namespace>> -> sample count
  timers,        \* HistogramTimer: id -> [labels, observed, ended, samples]
  lastCall,      \* history: the last Recorder call and its arguments
  \* ---- DynController under Rust's ownership rules (cap/src/lib.rs)
  adapters,      \* DynController values: [type, info, crd, factory, crds, starts]
  \* ---- reconcile request (meta/src/annotations.rs)
  annotations,   \* BTreeMap<String, String> of the object: key -> value
  reqStatus,     \* ReconcileRequestStatus: [last_handled_reconcile_at]
  atHandling,    \* history: the annotation (Option) when it was last handled
  \* ---- str_enum! (utils/macros/src/lib.rs, meta and acl conditions.rs)
  enumIn,        \* inputs: [enum, variant, text]
  enumOut,       \* results so far: [ser, back, de, tf], each an Option
  \* ---- Duration (meta/src/time_types/duration.rs)
  durIn,         \* input: the Duration that is formatted and converted
  durOut,        \* results so far: [text, parsed, time, back], each an Option
  \* ---- a started adapter's stream (cap/src/lib.rs, the factory closure)
  engine,        \* per adapter: the engine's position [pc, obj, err]
  raw,           \* per adapter: engine results not yet taken by the adapter's map
  emitted,       \* history: per adapter, every result the engine produced, in order
  items,         \* per adapter: the items the adapter's stream has yielded
  capCalls,      \* history: per adapter, the capability calls and watch failures
  stopped,        \* the shutdown future handed to the engines has resolved
  \* ---- record_condition calls that overlap (cops/src/metrics.rs)
  writers,        \* per caller: [pc, cond, deleted], pc the next `record` of its call
  \* ---- the stream of Signal::watch, read item by item (cap/src/signals.rs)
  sigQueue,      \* numbers the Signals stream holds, not yet read by filter_map
  arrived,       \* history: every number the Signals stream was given, in order
  yielded,        \* the items the stream of Signal::watch has yielded, in order
  \* ---- Duration::try_from on written text (meta/src/time_types/duration.rs)
  parseIn,       \* input: [sign, terms], the text is what Written makes of it
  parseOut       \* results so far: [try_from, from_str], each an Option

hostVars   == <<controllers, pc, telemetry, cmd, selected, crdCalls, stdout, result,
               registered, startCalls, trace>>
signalVars == <<pending, shared, handles, delivered, resolutions>>
metricVars == <<condition, suspend, duration, timers, lastCall>>
adapterVars == <<adapters>>
reconcileVars == <<annotations, reqStatus, atHandling>>
enumVars   == <<enumIn, enumOut>>
durVars    == <<durIn, durOut>>
runVars    == <<engine, raw, emitted, items, capCalls, stopped>>
raceVars   == <<writers>>
watchVars  == <<sigQueue, arrived, yielded>>
parseVars == <<parseIn, parseOut>>
vars       == <<hostVars, signalVars, metricVars, adapterVars, reconcileVars,
               enumVars, durVars, runVars, raceVars, watchVars, parseVars>>

\* What the actions of one part leave alone: the other parts.
notHost    == <<signalVars, metricVars, adapterVars, reconcileVars, enumVars,
               durVars, runVars, raceVars, watchVars, parseVars>>
notSignal  == <<hostVars, metricVars, adapterVars, reconcileVars, enumVars,
               durVars, runVars, raceVars, watchVars, parseVars>>
notMetric  == <<hostVars, signalVars, adapterVars, reconcileVars, enumVars,
               durVars, runVars, raceVars, watchVars, parseVars>>
notAdapter == <<hostVars, signalVars, metricVars, reconcileVars, enumVars,
               durVars, runVars, raceVars, watchVars, parseVars>>
notReconcile == <<hostVars, signalVars, metricVars, adapterVars, enumVars,
               durVars, runVars, raceVars, watchVars, parseVars>>
notEnum    == <<hostVars, signalVars, metricVars, adapterVars, reconcileVars,
               durVars, runVars, raceVars, watchVars, parseVars>>
notDur     == <<hostVars, signalVars, metricVars, adapterVars, reconcileVars,
               enumVars, runVars, raceVars, watchVars, parseVars>>
notRun     == <<hostVars, signalVars, metricVars, adapterVars, reconcileVars,
               enumVars, durVars, raceVars, watchVars, parseVars>>
\* What a step of an overlapping record_condition leaves alone outside the
\* Recorder.
notRace    == <<hostVars, signalVars, adapterVars, reconcileVars, enumVars,
               durVars, runVars, watchVars, parseVars>>
notWatch   == <<hostVars, signalVars, metricVars, adapterVars, reconcileVars,
               enumVars, durVars, runVars, raceVars, parseVars>>
notParse   == <<hostVars, signalVars, metricVars, adapterVars, reconcileVars,
               enumVars, durVars, runVars, raceVars, watchVars>>

\* Option<T>: None is the empty sequence, Some(x) the one-element sequence.
None == <<>>
Some(x) == <<x>>

(***************************************************************************)
(* Resource types that controllers are written for.  Resource::group and   *)
(* Resource::kind are static metadata of the type.  Two types share the    *)
(* kind K, and one type has a kind that reads like another's group/kind:   *)
(* nothing in the code restricts the characters of a kind.                 *)
(***************************************************************************)
NumTypes == 4
Types == 1..NumTypes

GroupOf(t) == CASE t = 1 -> <<"g">>
                [] t = 2 -> <<"h">>
                [] t = 3 -> <<"g">>
                [] OTHER -> <<"h">>

KindOf(t) == CASE t = 1 -> <<"K">>
               [] t = 2 -> <<"K">>
               [] t = 3 -> <<"J">>
               [] OTHER -> <<"g", "/", "K">>

MaxControllers == 3

\* format!("{group}/{kind}")
FormatGroupKind(group, kind) == group \o <<"/">> \o kind

\* Mutant of DynControllerNew: the two fields of the identity are filled from
\* each other's source.
DynControllerNewSwapped(t) ==
  [info |-> [group |-> KindOf(t), kind |-> GroupOf(t)], crd |-> t, factory |-> t]

\* DynController::new: identity from the type's static metadata; crd and
\* factory are closures over the controller type.
DynControllerNew(t) ==
  [info |-> [group |-> GroupOf(t), kind |-> KindOf(t)], crd |-> t, factory |-> t]

\* C::crd(): the schema manifest of the resource type, as printed text.
CrdOf(t) == <<"crd">> \o FormatGroupKind(GroupOf(t), KindOf(t)) \o <<"#", ToString(t)>>

(***************************************************************************)
(* Command surface (cap/src/cli.rs)                                        *)
(***************************************************************************)

\* Names a user may give to `crd <name>`: every kind, every group/kind, and
\* names no type has.
Names ==
  {KindOf(t) : t \in Types} \cup {FormatGroupKind(GroupOf(t), KindOf(t)) : t \in Types}
    \cup {<<"Z">>, <<"g", "/", "Z">>}

\* The values of `enum Command` that clap's parser hands to Command::run:
\* `all` and `name` are exclusive, so at most one of the three is given.
NoCmd == [all |-> FALSE, name |-> None, command |-> Some("unparsed")]

Commands ==
  {[all |-> TRUE, name |-> None, command |-> None]}
    \cup {[all |-> FALSE, name |-> Some(n), command |-> None] : n \in Names}
    \cup {[all |-> FALSE, name |-> None, command |-> Some("List")]}
    \cup {[all |-> FALSE, name |-> None, command |-> None]}

\* The closure given to find(): kind == crd || format!("{group}/{kind}") == crd
Matches(c, crd) ==
  c.info.kind = crd \/ FormatGroupKind(c.info.group, c.info.kind) = crd

\* Mutant of FindFrom: the last element the closure accepts, not the first.
RECURSIVE FindLastFrom(_, _, _)
FindLastFrom(ctrls, crd, i) ==
  IF i > Len(ctrls) THEN 0
  ELSE LET later == FindLastFrom(ctrls, crd, i + 1) IN
    IF later # 0 THEN later
    ELSE IF Matches(ctrls[i], crd) THEN i
    ELSE 0

\* Iterator::find over controllers.into_iter(), from position i on: the
\* index of the first element the closure accepts, 0 for Option::None.
RECURSIVE FindFrom(_, _, _)
FindFrom(ctrls, crd, i) ==
  IF i > Len(ctrls) THEN 0
  ELSE IF Matches(ctrls[i], crd) THEN i
  ELSE FindFrom(ctrls, crd, i + 1)

Find(ctrls, crd) == FindFrom(ctrls, crd, 1)

\* CrdCommand::run, List: one println!("{group}/{kind}") per controller, in
\* the order of the vector.
RECURSIVE ListLines(_, _)
ListLines(ctrls, i) ==
  IF i > Len(ctrls) THEN <<>>
  ELSE <<FormatGroupKind(ctrls[i].info.group, ctrls[i].info.kind)>>
         \o ListLines(ctrls, i + 1)

\* Mutant of CrdCommandRun: List asks the first controller for its schema
\* besides printing the identities.
CrdCommandRunWithSchema(ctrls) ==
  [outcome |-> "ok", out |-> ListLines(ctrls, 1),
   selected |-> IF ctrls = <<>> THEN 0 ELSE 1]

CrdCommandRun(ctrls) ==
  [outcome |-> "ok", out |-> ListLines(ctrls, 1), selected |-> 0]

\* Command::run: the match arms in the order of the source.  todo!() panics.
CommandRun(c, ctrls) ==
  IF c.all THEN [outcome |-> "panic", out |-> <<>>, selected |-> 0]
  ELSE IF c.name # None THEN
    LET i == Find(ctrls, c.name[1]) IN
      IF i = 0 THEN [outcome |-> "panic", out |-> <<>>, selected |-> 0]
      ELSE [outcome |-> "ok", out |-> <<CrdOf(ctrls[i].crd)>>, selected |-> i]
  ELSE IF c.command # None THEN CrdCommandRun(ctrls)
  ELSE [outcome |-> "panic", out |-> <<>>, selected |-> 0]

(***************************************************************************)
(* ControllerApp (cap/src/lib.rs)                                          *)
(***************************************************************************)

HostInit ==
  /\ controllers = <<>>
  /\ pc = "building"
  /\ telemetry = "down"
  /\ cmd = NoCmd
  /\ selected = 0
  /\ crdCalls = <<>>
  /\ stdout = <<>>
  /\ result = "none"
  /\ registered = <<>>
  /\ startCalls = <<>>
  /\ trace = <<>>

\* Mutant of Controller: a registration whose identity is already in the
\* registry is dropped.
ControllerDedup(t) ==
  /\ pc = "building"
  /\ Len(controllers) < MaxControllers
  /\ controllers' = IF \E i \in 1..Len(controllers) :
                          controllers[i].info = DynControllerNew(t).info
                      THEN controllers
                      ELSE Append(controllers, DynControllerNew(t))
  /\ crdCalls' = [i \in 1..Len(controllers') |-> 0]
  /\ startCalls' = [i \in 1..Len(controllers') |-> 0]
  /\ registered' = Append(registered, t)
  /\ UNCHANGED <<pc, telemetry, cmd, selected, stdout, result, trace>>
  /\ UNCHANGED notHost

\* ControllerApp::controller, called by main's setup closure.
Controller(t) ==
  /\ pc = "building"
  /\ Len(controllers) < MaxControllers
  /\ controllers' = Append(controllers, DynControllerNew(t))
  /\ crdCalls' = Append(crdCalls, 0)
  /\ startCalls' = Append(startCalls, 0)
  /\ registered' = Append(registered, t)
  /\ UNCHANGED <<pc, telemetry, cmd, selected, stdout, result, trace>>
  /\ UNCHANGED notHost

\* main: `let app = setup(app)?;` and `let rt = Runtime::new()?;`
SetupReturns(ok) ==
  /\ pc = "building"
  /\ pc' = IF ok THEN "telemetry" ELSE "done"
  /\ result' = IF ok THEN result ELSE "error"
  /\ trace' = Append(trace, IF ok THEN "built" ELSE "startup failed")
  /\ UNCHANGED <<controllers, telemetry, cmd, selected, crdCalls, stdout, registered,
                 startCalls>>
  /\ UNCHANGED notHost

\* Mutant of TelemetrySetup: the result of setup() is dropped (no `?`), and
\* main goes on to app.run after a failed setup.
TelemetrySetupUnchecked(ok) ==
  /\ pc = "telemetry"
  /\ pc' = "run"
  /\ telemetry' = IF ok THEN "up" ELSE telemetry
  /\ trace' = Append(trace, IF ok THEN "setup" ELSE "setup failed")
  /\ UNCHANGED <<controllers, cmd, selected, crdCalls, stdout, result, registered,
                 startCalls>>
  /\ UNCHANGED notHost

\* main: `fluxcd_utils_telemetry::setup()?;` inside block_on.
TelemetrySetup(ok) ==
  /\ pc = "telemetry"
  /\ pc' = IF ok THEN "run" ELSE "done"
  /\ telemetry' = IF ok THEN "up" ELSE telemetry
  /\ result' = IF ok THEN result ELSE "error"
  /\ trace' = Append(trace, IF ok THEN "setup" ELSE "setup failed")
  /\ UNCHANGED <<controllers, cmd, selected, crdCalls, stdout, registered, startCalls>>
  /\ UNCHANGED notHost

\* main: `let result = app.run(name, version).await;` -> cli::run ->
\* Cli::run -> Command::run.  from_arg_matches(..)? may return an error; a
\* panic of a todo!() unwinds out of block_on and main never returns.
AppRun(c, parsed) ==
  /\ pc = "run"
  /\ IF ~parsed
       THEN /\ result' = "error"
            /\ pc' = "teardown"
            /\ trace' = Append(trace, "arguments rejected")
            /\ UNCHANGED <<cmd, selected, crdCalls, stdout>>
       ELSE LET r == CommandRun(c, controllers) IN
            /\ cmd' = c
            /\ selected' = r.selected
            /\ crdCalls' = [i \in DOMAIN crdCalls |->
                             IF i = r.selected THEN crdCalls[i] + 1 ELSE crdCalls[i]]
            /\ stdout' = stdout \o r.out
            /\ result' = r.outcome
            /\ pc' = IF r.outcome = "panic" THEN "aborted" ELSE "teardown"
            /\ trace' = Append(trace, "dispatch")
  /\ UNCHANGED <<controllers, telemetry, registered, startCalls>>
  /\ UNCHANGED notHost

\* The command lines on which clap ends the process: no subcommand at all
\* (the subcommand of Cli is required, and arg_required_else_help prints the
\* help), a command line that does not parse, and --help / --version.
ExitReasons == {"no command", "usage", "help"}

\* cli::run: `cmd.clone().get_matches()` ends the process itself when the
\* arguments do not parse or ask for help or the version (clap prints and
\* calls std::process::exit); nothing after it in main runs.
ClapExits(why) ==
  /\ pc = "run"
  /\ pc' = "exited"
  /\ result' = "exit"
  /\ trace' = Append(trace, why)
  /\ UNCHANGED <<controllers, telemetry, cmd, selected, crdCalls, stdout, registered,
                 startCalls>>
  /\ UNCHANGED notHost

\* main: `fluxcd_utils_telemetry::teardown(); result` and then `?; Ok(())`.
Teardown ==
  /\ pc = "teardown"
  /\ telemetry' = "torn"
  /\ pc' = "done"
  /\ trace' = Append(trace, "teardown")
  /\ UNCHANGED <<controllers, cmd, selected, crdCalls, stdout, result, registered,
                 startCalls>>
  /\ UNCHANGED notHost

(***************************************************************************)
(* Signal and SharedSignal (cap/src/signals.rs)                            *)
(***************************************************************************)

\* signal_hook::consts
SIGHUP  == 1
SIGINT  == 2
SIGQUIT == 3
SIGTERM == 15

\* Signal::ALL, the numbers Signals::new subscribes to.
ALL == {SIGTERM, SIGINT, SIGQUIT}

\* The numbers the stream of Signals is modelled to yield: the subscribed
\* ones and one that `enum Signal` does not know, which filter_map drops.
SignalNumbers == ALL \cup {SIGHUP}

MaxPending == 2    \* signal numbers waiting in the stream
MaxSignals == 2    \* termination signals received over a run
MaxHandles == 4    \* SharedSignal clones, the first one included

\* impl TryFrom<i32> for Signal
SignalTryFrom(value) ==
  CASE value = SIGTERM -> Some("SigTerm")
    [] value = SIGINT  -> Some("SigInt")
    [] value = SIGQUIT -> Some("SigQuit")
    [] OTHER           -> None

\* Signal::watch: signals.filter_map(|s| ready(Signal::try_from(s).ok())),
\* asked for its next item with `received` waiting in the stream: the first
\* number that converts is the item; the numbers before it are consumed.
RECURSIVE WatchNext(_)

\* Mutant of WatchNext: a number that does not convert ends the reading, and
\* what waits behind it is lost.
WatchNextDropRest(received) ==
  IF received = <<>> THEN [item |-> None, rest |-> <<>>]
  ELSE IF SignalTryFrom(Head(received)) # None
         THEN [item |-> SignalTryFrom(Head(received)), rest |-> Tail(received)]
  ELSE [item |-> None, rest |-> <<>>]

WatchNext(received) ==
  IF received = <<>> THEN [item |-> None, rest |-> <<>>]
  ELSE IF SignalTryFrom(Head(received)) # None
         THEN [item |-> SignalTryFrom(Head(received)), rest |-> Tail(received)]
  ELSE WatchNext(Tail(received))

\* Mutant of SharedPoll: a poll answers from the stream even after the
\* future has completed, so the signal falls back to pending.
SharedPollAgain(state, received) ==
  LET n == WatchNext(received) IN
    IF n.item # None
      THEN [state |-> "complete", received |-> <<>>, poll |-> "Ready"]
      ELSE [state |-> "idle", received |-> n.rest, poll |-> "Pending"]

\* Mutant of SharedPoll: the handle that reads the signal consumes it, and
\* the completion is not stored for the other handles.
SharedPollConsume(state, received) ==
  LET n == WatchNext(received) IN
    IF n.item # None
      THEN [state |-> "idle", received |-> n.rest, poll |-> "Ready"]
      ELSE [state |-> "idle", received |-> n.rest, poll |-> "Pending"]

\* One poll of the Shared future that SharedSignal wraps, through any of its
\* clones (SharedSignal::poll -> Shared::poll).  A completed Shared answers
\* Ready from its stored output; otherwise the poll drives the future built
\* by Signal::shared, `let _ = stream.next().await;`, which completes with
\* the first item of the watch stream and then drops the stream.
SharedPoll(state, received) ==
  IF state = "complete"
    THEN [state |-> "complete", received |-> received, poll |-> "Ready"]
  ELSE LET n == WatchNext(received) IN
    IF n.item # None
      THEN [state |-> "complete", received |-> <<>>, poll |-> "Ready"]
      ELSE [state |-> "idle", received |-> n.rest, poll |-> "Pending"]

\* A clone of the SharedSignal.  inner: the handle still refers to the shared
\* state (Shared takes it away when the handle's poll returns Ready); poll:
\* the result of the handle's last poll; at: how many termination signals had
\* been received when it was polled; late: it was cloned after a termination
\* signal had been received.
NewHandle(from, late) ==
  [inner |-> from.inner, poll |-> "never", at |-> 0, late |-> late]

\* The state right after a successful Signal::shared(): the subscription is
\* open, nothing received, one SharedSignal, never polled.
SignalInit ==
  /\ pending = <<>>
  /\ shared = "idle"
  /\ handles = <<[inner |-> TRUE, poll |-> "never", at |-> 0, late |-> FALSE]>>
  /\ delivered = 0
  /\ resolutions = 0

IsTermination(n) == n \in ALL

\* The process receives signal number n.  Once the future has completed the
\* stream is dropped and nothing reads the signal any more.
Deliver(n) ==
  /\ delivered < MaxSignals
  /\ Len(pending) < MaxPending
  /\ pending' = IF shared = "idle" THEN Append(pending, n) ELSE pending
  /\ delivered' = IF IsTermination(n) THEN delivered + 1 ELSE delivered
  /\ UNCHANGED <<shared, handles, resolutions>>
  /\ UNCHANGED notSignal

\* #[derive(Clone)] on SharedSignal: handle c is cloned.
Clone(c) ==
  /\ c \in DOMAIN handles
  /\ Len(handles) < MaxHandles
  /\ handles' = Append(handles, NewHandle(handles[c], delivered >= 1))
  /\ UNCHANGED <<pending, shared, delivered, resolutions>>
  /\ UNCHANGED notSignal

\* impl Future for SharedSignal, poll, on handle c.  A future that returned
\* Ready is not polled again (Future's contract; Shared panics if it is).
Poll(c) ==
  /\ c \in DOMAIN handles
  /\ handles[c].inner
  /\ LET r == SharedPoll(shared, pending) IN
       /\ shared' = r.state
       /\ pending' = r.received
       /\ resolutions' = IF shared = "idle" /\ r.state = "complete"
                           THEN resolutions + 1 ELSE resolutions
       /\ handles' = [handles EXCEPT ![c] =
                        [inner |-> r.poll # "Ready", poll |-> r.poll,
                         at |-> delivered, late |-> @.late]]
  /\ UNCHANGED delivered
  /\ UNCHANGED notSignal

(***************************************************************************)
(* Recorder (cops/src/metrics.rs)                                          *)
(***************************************************************************)

\* ObjectReference values handed to the Recorder: kind, name and namespace
\* are Option<String>.
ObjectRefs ==
  { [kind |-> Some("K"), name |-> Some("n"), namespace |-> Some("ns")],
    [kind |-> None, name |-> None, namespace |-> None] }

\* Condition values: type_ and status are String.  "True", "False" and
\* "Unknown" are the statuses Kubernetes defines; the field admits any text.
ConditionTypes == {"Ready"}
Statuses == {"True", "False", "Unknown", "Bogus"}
Conditions == [type_ : ConditionTypes, status : Statuses]

MaxTimers == 2

\* Mutant of UnwrapOrDefault: the placeholder the tracing code of
\* DynController::new uses for an absent name.
UnwrapOrNull(o) == IF o = None THEN "<NULL>" ELSE o[1]

\* Option::as_deref().unwrap_or_default()
UnwrapOrDefault(o) == IF o = None THEN "" ELSE o[1]

\* The three labels every series starts with.
ObjLabels(obj) ==
  <<UnwrapOrDefault(obj.kind), UnwrapOrDefault(obj.name), UnwrapOrDefault(obj.namespace)>>

\* Mutant of GaugeSet: Gauge::add in place of Gauge::set.
GaugeAdd(vec, labels, value) ==
  [l \in DOMAIN vec \cup {labels} |->
     IF l = labels THEN (IF l \in DOMAIN vec THEN vec[l] ELSE 0) + value ELSE vec[l]]

\* MetricVec::with_label_values(..) followed by Gauge::set(value): the series
\* is created when it does not exist, and holds value afterwards.
GaugeSet(vec, labels, value) ==
  [l \in DOMAIN vec \cup {labels} |-> IF l = labels THEN value ELSE vec[l]]

\* The closure `record` of record_condition.
Record(vec, obj, ty, status, value) ==
  GaugeSet(vec, ObjLabels(obj) \o <<ty, status>>, IF value THEN 1 ELSE 0)

\* Mutant of RecordConditionGauges: only the gauge of the current status is
\* written; the others keep their values.
RecordConditionOnlyCurrent(vec, obj, cond, deleted) ==
  IF deleted THEN Record(vec, obj, cond.type_, "Deleted", TRUE)
  ELSE IF cond.status \in {"True", "False", "Unknown"}
         THEN Record(vec, obj, cond.type_, cond.status, TRUE)
  ELSE vec

\* Mutant of RecordConditionGauges: `deleted` only sets the Deleted gauge; the
\* status gauges follow the condition's status.
RecordConditionIgnoreDeleted(vec, obj, cond, deleted) ==
  LET ty == cond.type_
      g1 == Record(vec, obj, ty, "True", cond.status = "True")
      g2 == Record(g1, obj, ty, "False", cond.status = "False")
      g3 == Record(g2, obj, ty, "Unknown", cond.status = "Unknown")
  IN  Record(g3, obj, ty, "Deleted", deleted)

\* Recorder::record_condition: the four calls of `record`, in source order.
RecordConditionGauges(vec, obj, cond, deleted) ==
  LET ty == cond.type_
      g1 == Record(vec, obj, ty, "True", ~deleted /\ cond.status = "True")
      g2 == Record(g1, obj, ty, "False", ~deleted /\ cond.status = "False")
      g3 == Record(g2, obj, ty, "Unknown", ~deleted /\ cond.status = "Unknown")
  IN  Record(g3, obj, ty, "Deleted", deleted)

MetricInit ==
  /\ condition = <<>>
  /\ suspend = <<>>
  /\ duration = <<>>
  /\ timers = <<>>
  /\ lastCall = [call |-> [op |-> "none"], again |-> FALSE]

\* The arguments of a record_condition call, as remembered in lastCall.
ConditionCall(obj, cond, deleted) ==
  [op |-> "record_condition", obj |-> obj, cond |-> cond, deleted |-> deleted]

RecordCondition(obj, cond, deleted) ==
  /\ condition' = RecordConditionGauges(condition, obj, cond, deleted)
  /\ lastCall' = [call |-> ConditionCall(obj, cond, deleted),
                  again |-> lastCall.call = ConditionCall(obj, cond, deleted)]
  /\ UNCHANGED <<suspend, duration, timers>>
  /\ UNCHANGED notMetric

\* Mutant of RecordSuspend: the suspend gauges are cleared before the one of
\* the object is set.
RecordSuspendReset(obj, flag) ==
  /\ suspend' = GaugeSet(<<>>, ObjLabels(obj), IF flag THEN 1 ELSE 0)
  /\ lastCall' = [call |-> [op |-> "record_suspend", obj |-> obj, flag |-> flag],
                  again |-> FALSE]
  /\ UNCHANGED <<condition, duration, timers>>
  /\ UNCHANGED notMetric

\* Recorder::record_suspend
RecordSuspend(obj, flag) ==
  /\ suspend' = GaugeSet(suspend, ObjLabels(obj), IF flag THEN 1 ELSE 0)
  /\ lastCall' = [call |-> [op |-> "record_suspend", obj |-> obj, flag |-> flag],
                  again |-> FALSE]
  /\ UNCHANGED <<condition, duration, timers>>
  /\ UNCHANGED notMetric

\* Histogram::observe through a HistogramTimer: one sample for the timer's
\* series; the timer remembers that it has observed.
TimerObserve(tm, hist) ==
  [timer |-> [tm EXCEPT !.observed = TRUE, !.samples = @ + 1],
   hist  |-> [hist EXCEPT ![tm.labels] = @ + 1]]

\* Mutant of TimerDrop: the drop observes whether or not the timer has
\* observed already.
TimerDropAlways(tm, hist) ==
  LET o == TimerObserve(tm, hist)
  IN  [timer |-> [o.timer EXCEPT !.ended = TRUE], hist |-> o.hist]

\* impl Drop for HistogramTimer: a timer that has not observed yet observes.
TimerDrop(tm, hist) ==
  LET o == IF tm.observed THEN [timer |-> tm, hist |-> hist]
           ELSE TimerObserve(tm, hist)
  IN  [timer |-> [o.timer EXCEPT !.ended = TRUE], hist |-> o.hist]

\* Recorder::record_duration: with_label_values(..).start_timer().  The
\* series exists from here on; it has no sample yet.
RecordDuration(obj) ==
  /\ Len(timers) < MaxTimers
  /\ duration' = [l \in DOMAIN duration \cup {ObjLabels(obj)} |->
                   IF l \in DOMAIN duration THEN duration[l] ELSE 0]
  /\ timers' = Append(timers, [labels |-> ObjLabels(obj), observed |-> FALSE,
                               ended |-> FALSE, samples |-> 0])
  /\ lastCall' = [call |-> [op |-> "record_duration", obj |-> obj], again |-> FALSE]
  /\ UNCHANGED <<condition, suspend>>
  /\ UNCHANGED notMetric

\* The caller stops timer t explicitly: HistogramTimer::observe_duration(self)
\* observes, and the timer it consumed is dropped on return.
ObserveDuration(t) ==
  /\ t \in DOMAIN timers
  /\ ~timers[t].ended
  /\ LET o == TimerObserve(timers[t], duration)
         d == TimerDrop(o.timer, o.hist)
     IN  /\ timers' = [timers EXCEPT ![t] = d.timer]
         /\ duration' = d.hist
  /\ lastCall' = [call |-> [op |-> "observe_duration"], again |-> FALSE]
  /\ UNCHANGED <<condition, suspend>>
  /\ UNCHANGED notMetric

\* Timer t leaves its scope without having been stopped.
ScopeExit(t) ==
  /\ t \in DOMAIN timers
  /\ ~timers[t].ended
  /\ LET d == TimerDrop(timers[t], duration)
     IN  /\ timers' = [timers EXCEPT ![t] = d.timer]
         /\ duration' = d.hist
  /\ lastCall' = [call |-> [op |-> "drop"], again |-> FALSE]
  /\ UNCHANGED <<condition, suspend>>
  /\ UNCHANGED notMetric

(***************************************************************************)
(* DynController as a value (cap/src/lib.rs).  Its fields are private to   *)
(* the crate; crd and factory are boxed FnOnce closures, and the method    *)
(* crd takes self by value.  The operations below are the ones the type    *)
(* admits: a call of a FnOnce box moves the box out of its field, a method *)
(* taking self needs the whole value, and a moved field cannot be used.    *)
(***************************************************************************)

MaxAdapters == 2

\* The value DynController::new(controller) returns for a controller of type
\* t, with its two closures in place and neither called.
AdapterNew(t) ==
  [type |-> t, info |-> Some(DynControllerNew(t).info),
   crd |-> "owned", factory |-> "owned", crds |-> 0, starts |-> 0]

AdapterInit == adapters = <<>>

\* let c = DynController::new(controller);
NewAdapter(t) ==
  /\ Len(adapters) < MaxAdapters
  /\ adapters' = Append(adapters, AdapterNew(t))
  /\ UNCHANGED notAdapter

\* A DynController with no field moved out: it can be passed by value.
Whole(a) == a.info # None /\ a.crd = "owned" /\ a.factory = "owned"

\* c.crd(): `fn crd(self)` takes the adapter by value and calls the boxed
\* FnOnce; the schema is returned, and the rest of the adapter (identity and
\* factory) is dropped with self.
CallCrd(i) ==
  /\ i \in DOMAIN adapters
  /\ Whole(adapters[i])
  /\ adapters' = [adapters EXCEPT ![i] =
                    [@ EXCEPT !.crd = "called", !.factory = "dropped", !.info = None,
                              !.crds = @ + 1]]
  /\ UNCHANGED notAdapter

\* Mutant of CallFactory: the factory is a Fn closure, called through a
\* reference, and stays in its field.
CallFactoryByRef(i) ==
  /\ i \in DOMAIN adapters
  /\ adapters[i].factory = "owned"
  /\ adapters' = [adapters EXCEPT ![i] = [@ EXCEPT !.starts = @ + 1]]
  /\ UNCHANGED notAdapter

\* (c.factory)(client, signal): the call of the Box<dyn FnOnce(..)> moves the
\* closure out of the field and yields the adapter's stream.
CallFactory(i) ==
  /\ i \in DOMAIN adapters
  /\ adapters[i].factory = "owned"
  /\ adapters' = [adapters EXCEPT ![i] =
                    [@ EXCEPT !.factory = "called", !.starts = @ + 1]]
  /\ UNCHANGED notAdapter

\* `let info = ctrl.info;` as CrdCommand::run does: the identity is moved out
\* of the adapter, the same value it was built with.
TakeInfo(i) ==
  /\ i \in DOMAIN adapters
  /\ adapters[i].info # None
  /\ adapters' = [adapters EXCEPT ![i] = [@ EXCEPT !.info = None]]
  /\ UNCHANGED notAdapter

(***************************************************************************)
(* Reconcile request annotation and its status (meta/src/annotations.rs)   *)
(***************************************************************************)

RECONCILE_REQUEST_ANNOTATION == "reconcile.fluxcd.io/requestedAt"

\* Annotation keys an object is given here: the request annotation, a key
\* that differs from it in case only, and an unrelated one.
AnnotationKeys ==
  {RECONCILE_REQUEST_ANNOTATION, "reconcile.fluxcd.io/requestedat", "other"}

\* Tokens: any String, the empty one included.
Tokens == {"", "a", "b"}

\* BTreeMap::get
MapGet(map, key) == IF key \in DOMAIN map THEN Some(map[key]) ELSE None

\* BTreeMap::insert
MapInsert(map, key, value) ==
  [k \in DOMAIN map \cup {key} |-> IF k = key THEN value ELSE map[k]]

\* BTreeMap::remove
MapRemove(map, key) == [k \in DOMAIN map \ {key} |-> map[k]]

get_reconcile_annotation_value(map) == MapGet(map, RECONCILE_REQUEST_ANNOTATION)

\* ReconcileRequestStatus::get_last_handled_reconcile_request
get_last_handled_reconcile_request(self) == self.last_handled_reconcile_at

\* Mutant of set_last_handled_reconcile_request: an absent token leaves the
\* field as it is.
set_last_handled_keep_on_none(self, token) ==
  IF token = None THEN self
  ELSE [self EXCEPT !.last_handled_reconcile_at = token]

\* ReconcileRequestStatus::set_last_handled_reconcile_request
set_last_handled_reconcile_request(self, token) ==
  [self EXCEPT !.last_handled_reconcile_at = token]

\* A new object: no annotations, ReconcileRequestStatus::default().
ReconcileInit ==
  /\ annotations = <<>>
  /\ reqStatus = [last_handled_reconcile_at |-> None]
  /\ atHandling = None

\* obj.annotations.insert(key, value)
InsertAnnotation(key, value) ==
  /\ annotations' = MapInsert(annotations, key, value)
  /\ UNCHANGED <<reqStatus, atHandling>>
  /\ UNCHANGED notReconcile

\* obj.annotations.remove(key)
RemoveAnnotation(key) ==
  /\ key \in DOMAIN annotations
  /\ annotations' = MapRemove(annotations, key)
  /\ UNCHANGED <<reqStatus, atHandling>>
  /\ UNCHANGED notReconcile

\* A handling: `let val = get_reconcile_annotation_value(&obj.annotations);
\* obj.status.set_last_handled_reconcile_request(val);`
Handle ==
  /\ reqStatus' = set_last_handled_reconcile_request(
                  reqStatus, get_reconcile_annotation_value(annotations))
  /\ atHandling' = IF RECONCILE_REQUEST_ANNOTATION \in DOMAIN annotations
                     THEN <<annotations[RECONCILE_REQUEST_ANNOTATION]>> ELSE <<>>
  /\ UNCHANGED annotations
  /\ UNCHANGED notReconcile

(***************************************************************************)
(* str_enum! (utils/macros/src/lib.rs) and the enums declared with it.     *)
(* An arm is a pair `$var_name = $var_val`; the generated impls are        *)
(* matches over the arms in the order of the declaration.                  *)
(***************************************************************************)

StrEnums == {"meta::Condition", "meta::Reason", "acl::Condition", "acl::Reason"}

Arm(name, val) == [var_name |-> name, var_val |-> val]

\* The arms of each str_enum! invocation, in source order.
Arms(e) ==
  CASE e = "meta::Condition" ->
         <<Arm("Ready", "Ready"), Arm("Stalled", "Stalled"),
           Arm("Reconciling", "Reconciling")>>
    [] e = "meta::Reason" ->
         <<Arm("Succeeded", "Succeeded"), Arm("Failed", "Failed"),
           Arm("Progressing", "Progressing"), Arm("Suspended", "Suspended")>>
    [] e = "acl::Condition" -> <<Arm("AccessDenied", "AccessDenied")>>
    [] OTHER -> <<Arm("AccessDenied", "AccessDenied")>>

\* A value of enum e: the variant named name.
Variant(e, name) == [enum |-> e, variant |-> name]

Variants(e) == {Variant(e, Arms(e)[i].var_name) : i \in DOMAIN Arms(e)}

\* The literals of the arms of enum e.
DeclaredValues(e) == {Arms(e)[i].var_val : i \in DOMAIN Arms(e)}

\* The texts handed to the parsers: every declared value of every enum, and
\* texts close to one: empty, other case, a space more, a prefix.
Texts ==
  UNION {DeclaredValues(e) : e \in StrEnums}
    \cup {"", "ready", "READY", "Ready ", "Read", "Unknown"}

Ok(x) == [ok |-> TRUE, value |-> x]
Err(x) == [ok |-> FALSE, error |-> x]

\* `match self { $(Self::$var_name => $var_val ...)+ }` of Display and
\* Serialize: the value of the first arm with the variant's name.
RECURSIVE MatchSelf(_, _)
MatchSelf(arms, v) ==
  IF Head(arms).var_name = v.variant THEN Head(arms).var_val
  ELSE MatchSelf(Tail(arms), v)

\* impl Serialize: the variant is serialized as the str of its arm.
serialize(v) == MatchSelf(Arms(v.enum), v)

\* `match v { $($var_val => Ok(..),)* _ => Err(..) }`: the first arm whose
\* literal is the text, and the fallback when there is none.
RECURSIVE MatchStr(_, _, _, _)
MatchStr(e, arms, text, fallback) ==
  IF arms = <<>> THEN fallback
  ELSE IF Head(arms).var_val = text THEN Ok(Variant(e, Head(arms).var_name))
  ELSE MatchStr(e, Tail(arms), text, fallback)

\* Mutant of visit_str: an unknown text yields the first variant.
visit_str_default(e, text) ==
  MatchStr(e, Arms(e), text, Ok(Variant(e, Arms(e)[1].var_name)))

\* impl Deserialize: Visitor::visit_str
visit_str(e, text) == MatchStr(e, Arms(e), text, Err("invalid_value"))

\* impl TryFrom<&str>
try_from(e, text) == MatchStr(e, Arms(e), text, Err("()"))

\* Nothing is being converted.
EnumIdle ==
  /\ enumIn = [enum |-> "meta::Condition", variant |-> "Ready", text |-> ""]
  /\ enumOut = [ser |-> None, back |-> None, de |-> None, tf |-> None]

\* The inputs: a variant of one of the enums and a text.
EnumInputs ==
  /\ enumIn \in {[enum |-> v.enum, variant |-> v.variant, text |-> t] :
                   v \in UNION {Variants(e) : e \in StrEnums}, t \in Texts}
  /\ enumOut = [ser |-> None, back |-> None, de |-> None, tf |-> None]

\* serde: the variant is serialized.
Serialize ==
  /\ enumOut.ser = None
  /\ enumOut' = [enumOut EXCEPT
                   !.ser = Some(serialize(Variant(enumIn.enum, enumIn.variant)))]
  /\ UNCHANGED enumIn
  /\ UNCHANGED notEnum

\* serde: what was serialized is deserialized again (assert_tokens).
DeserializeBack ==
  /\ enumOut.ser # None
  /\ enumOut.back = None
  /\ enumOut' = [enumOut EXCEPT !.back = Some(visit_str(enumIn.enum, enumOut.ser[1]))]
  /\ UNCHANGED enumIn
  /\ UNCHANGED notEnum

\* serde: the text is deserialized as a value of the enum.
Deserialize ==
  /\ enumOut.de = None
  /\ enumOut' = [enumOut EXCEPT !.de = Some(visit_str(enumIn.enum, enumIn.text))]
  /\ UNCHANGED enumIn
  /\ UNCHANGED notEnum

\* <$name as TryFrom<&str>>::try_from(text)
TryFromStr ==
  /\ enumOut.tf = None
  /\ enumOut' = [enumOut EXCEPT !.tf = Some(try_from(enumIn.enum, enumIn.text))]
  /\ UNCHANGED enumIn
  /\ UNCHANGED notEnum

(***************************************************************************)
(* Duration (meta/src/time_types/duration.rs).                             *)
(*                                                                         *)
(* A u64 or i64 does not fit TLC's integers, so an unsigned number is a    *)
(* sequence of limbs, the digits of the number to the base 10^4, most      *)
(* significant first and without leading zeros (zero is the empty          *)
(* sequence), and the arithmetic of the source is done on limbs.  A        *)
(* Duration(i64) is a sign and a magnitude.  Text is a sequence of bytes:  *)
(* an ASCII byte is its character, another byte is its two hexadecimal     *)
(* digits.                                                                 *)
(***************************************************************************)

Base == 100 * 100

RECURSIVE Norm(_)
Norm(a) == IF a # <<>> /\ Head(a) = 0 THEN Norm(Tail(a)) ELSE a

\* A number small enough for TLC, as limbs.
RECURSIVE FromInt(_)
FromInt(n) == IF n = 0 THEN <<>> ELSE Append(FromInt(n \div Base), n % Base)

RECURSIVE LexLess(_, _)
LexLess(a, b) ==
  IF a = <<>> THEN FALSE
  ELSE IF Head(a) # Head(b) THEN Head(a) < Head(b)
  ELSE LexLess(Tail(a), Tail(b))

\* a < b and a <= b
Less(a, b) == IF Len(a) # Len(b) THEN Len(a) < Len(b) ELSE LexLess(a, b)
LessEq(a, b) == a = b \/ Less(a, b)

\* The lowest limb of a, and a without it.
Low(a) == IF a = <<>> THEN 0 ELSE a[Len(a)]
High(a) == IF a = <<>> THEN <<>> ELSE SubSeq(a, 1, Len(a) - 1)

\* a + b
RECURSIVE AddCarry(_, _, _)
AddCarry(a, b, carry) ==
  IF a = <<>> /\ b = <<>> THEN FromInt(carry)
  ELSE LET t == Low(a) + Low(b) + carry
       IN  Append(AddCarry(High(a), High(b), t \div Base), t % Base)

Add(a, b) == Norm(AddCarry(a, b, 0))

\* a - b, for b <= a
RECURSIVE SubBorrow(_, _, _)
SubBorrow(a, b, borrow) ==
  IF a = <<>> THEN <<>>
  ELSE LET t == Low(a) - Low(b) - borrow
       IN  Append(SubBorrow(High(a), High(b), IF t < 0 THEN 1 ELSE 0),
                  IF t < 0 THEN t + Base ELSE t)

Sub(a, b) == Norm(SubBorrow(a, b, 0))

\* a * k for a single limb k
RECURSIVE MulCarry(_, _, _)
MulCarry(a, k, carry) ==
  IF a = <<>> THEN FromInt(carry)
  ELSE LET t == Low(a) * k + carry
       IN  Append(MulCarry(High(a), k, t \div Base), t % Base)

\* a * b
RECURSIVE Mul(_, _)
Mul(a, b) ==
  IF b = <<>> THEN <<>>
  ELSE LET high == Mul(a, High(b))
       IN  Add(IF high = <<>> THEN <<>> ELSE Append(high, 0),
               Norm(MulCarry(a, Low(b), 0)))

\* a / k and a % k for a divisor k of one limb (the 10 and 60 of Display)
RECURSIVE DivLoop(_, _, _, _)
DivLoop(a, k, r, q) ==
  IF a = <<>> THEN [quot |-> Norm(q), rem |-> r]
  ELSE LET t == r * Base + Head(a)
       IN  DivLoop(Tail(a), k, t % k, Append(q, t \div k))

DivMod(a, k) == DivLoop(a, k, 0, <<>>)

\* v % 10 and v / 10
Mod10(a) == Low(a) % 10
Div10(a) == DivMod(a, 10).quot

\* a / 10^n
RECURSIVE DivPow10(_, _)
DivPow10(a, n) == IF n = 0 \/ a = <<>> THEN a ELSE DivPow10(Div10(a), n - 1)

\* 2^64 - 1 and 2^63 - 1
U64_MAX == <<1844, 6744, 737, 955, 1615>>
I64_MAX == <<922, 3372, 368, 5477, 5807>>

\* i64::unsigned_abs(i64::MIN)
I64_MIN_ABS == Add(I64_MAX, <<1>>)

\* Mutant of checked_add: wrapping_add, the sum modulo 2^64.
wrapping_add(a, b) ==
  LET r == Add(a, b)
  IN  Some(IF LessEq(r, U64_MAX) THEN r ELSE Sub(r, Add(U64_MAX, <<1>>)))

\* u64::checked_add and u64::checked_mul
checked_add(a, b) == LET r == Add(a, b) IN IF LessEq(r, U64_MAX) THEN Some(r) ELSE None
checked_mul(a, b) == LET r == Mul(a, b) IN IF LessEq(r, U64_MAX) THEN Some(r) ELSE None

\* Duration(i64).  The negation of zero is zero.
DurationOf(neg, abs) == [neg |-> neg /\ abs # <<>>, abs |-> abs]

\* The values an i64 holds.
IsI64(d) ==
  /\ d.neg => d.abs # <<>>
  /\ IF d.neg THEN LessEq(d.abs, I64_MIN_ABS) ELSE LessEq(d.abs, I64_MAX)

ZERO == DurationOf(FALSE, <<>>)
MIN == DurationOf(TRUE, I64_MIN_ABS)
MAX == DurationOf(FALSE, I64_MAX)

\* The magnitudes of Duration::NANOSECOND .. Duration::HOUR.
NANOSECOND == <<1>>
MICROSECOND == Mul(FromInt(1000), NANOSECOND)
MILLISECOND == Mul(FromInt(1000), MICROSECOND)
SECOND == Mul(FromInt(1000), MILLISECOND)
MINUTE == Mul(FromInt(60), SECOND)
HOUR == Mul(FromInt(60), MINUTE)

\* The bytes b'0' ..= b'9', and `digit + b'0'`.
DigitBytes == <<"0", "1", "2", "3", "4", "5", "6", "7", "8", "9">>
DigitByte(digit) == DigitBytes[digit + 1]

\* formatting::frac: the digits of v % 10^prec are pushed least significant
\* first, trailing zeros and then the point left out; v / 10^prec is
\* returned.
RECURSIVE FracLoop(_, _, _, _)
FracLoop(buf, v, i, print) ==
  IF i = 0 THEN [buf |-> IF print THEN Append(buf, ".") ELSE buf, v |-> v]
  ELSE LET digit == Mod10(v)
           p == print \/ digit # 0
       IN  FracLoop(IF p THEN Append(buf, DigitByte(digit)) ELSE buf, Div10(v), i - 1, p)

frac(buf, v, prec) == FracLoop(buf, v, prec, FALSE)

\* formatting::int
RECURSIVE IntLoop(_, _)
IntLoop(buf, v) ==
  IF v = <<>> THEN buf ELSE IntLoop(Append(buf, DigitByte(Mod10(v))), Div10(v))

int(buf, v) == IF v = <<>> THEN Append(buf, "0") ELSE IntLoop(buf, v)

\* buf.reverse()
RECURSIVE Reverse(_)
Reverse(buf) == IF buf = <<>> THEN <<>> ELSE Append(Reverse(Tail(buf)), Head(buf))

\* The branch of Display for a duration below one second.
DisplaySubSecond(u) ==
  LET prec == IF Less(u, MICROSECOND) THEN 0
              ELSE IF Less(u, MILLISECOND) THEN 3 ELSE 6
      buf == IF Less(u, MICROSECOND) THEN <<"s", "n">>
             ELSE IF Less(u, MILLISECOND) THEN <<"s", "B5", "C2">>
             ELSE <<"s", "m">>
      f == frac(buf, u, prec)
  IN  int(f.buf, f.v)

\* The branch of Display for one second and more.
DisplaySeconds(u) ==
  LET f == frac(<<"s">>, u, 9)
      secs == DivMod(f.v, 60)
      b1 == int(f.buf, FromInt(secs.rem))
  IN  IF secs.quot = <<>> THEN b1
      ELSE LET mins == DivMod(secs.quot, 60)
               b2 == int(Append(b1, "m"), FromInt(mins.rem))
           IN  IF mins.quot = <<>> THEN b2
               ELSE int(Append(b2, "h"), mins.quot)

\* impl fmt::Display for Duration
Display(d) ==
  IF d.abs = <<>> THEN <<"0", "s">>
  ELSE LET u == d.abs
           buf == IF Less(u, SECOND) THEN DisplaySubSecond(u) ELSE DisplaySeconds(u)
       IN  Reverse(IF d.neg THEN Append(buf, "-") ELSE buf)

IsDigit(c) == \E i \in DOMAIN DigitBytes : DigitBytes[i] = c

\* `c - b'0'` for a digit byte c
DigitValue(c) == (CHOOSE i \in DOMAIN DigitBytes : DigitBytes[i] = c) - 1

\* unit_base: the magnitude of the unit a symbol names.
unit_base(symbol) ==
  CASE symbol = <<"n", "s">> -> Some(NANOSECOND)
    [] symbol = <<"u", "s">> -> Some(MICROSECOND)
    [] symbol = <<"C2", "B5", "s">> -> Some(MICROSECOND)
    [] symbol = <<"CE", "BC", "s">> -> Some(MICROSECOND)
    [] symbol = <<"m", "s">> -> Some(MILLISECOND)
    [] symbol = <<"s">> -> Some(SECOND)
    [] symbol = <<"m">> -> Some(MINUTE)
    [] symbol = <<"h">> -> Some(HOUR)
    [] OTHER -> None

\* x.checked_mul(10)?.checked_add(c - b'0')
MulAdd10(x, c) ==
  LET m == checked_mul(x, FromInt(10))
  IN  IF m = None THEN None ELSE checked_add(m[1], FromInt(DigitValue(c)))

\* leading_ints: the leading digits of s as a number, None on overflow, and
\* the rest of s.
RECURSIVE LeadingIntsLoop(_, _)
LeadingIntsLoop(s, x) ==
  IF s = <<>> \/ ~IsDigit(Head(s)) THEN [x |-> Some(x), rest |-> s]
  ELSE LET y == MulAdd10(x, Head(s))
       IN  IF y = None THEN [x |-> None, rest |-> s]
           ELSE LeadingIntsLoop(Tail(s), y[1])

leading_ints(s) == LeadingIntsLoop(s, <<>>)

\* leading_fractions: the leading digits of s as a number x and the scale,
\* the f64 10^n for the n digits taken (held as n); after an overflow the
\* further digits are skipped.
RECURSIVE LeadingFractionsLoop(_, _, _, _)
LeadingFractionsLoop(s, x, scale, overflow) ==
  IF s = <<>> \/ ~IsDigit(Head(s)) THEN [x |-> x, scale |-> scale, rest |-> s]
  ELSE IF overflow THEN LeadingFractionsLoop(Tail(s), x, scale, TRUE)
  ELSE LET y == MulAdd10(x, Head(s))
       IN  IF y = None THEN LeadingFractionsLoop(Tail(s), x, scale, TRUE)
           ELSE LeadingFractionsLoop(Tail(s), y[1], scale + 1, FALSE)

leading_fractions(s) == LeadingFractionsLoop(s, <<>>, 0, FALSE)

\* 2^53: an integer below it is an f64 without rounding.
F64_EXACT == <<9007, 1992, 5474, 992>>

\* The number of zeros the decimal digits of a number end in.
RECURSIVE TrailingZeros(_)
TrailingZeros(a) == IF a = <<>> \/ Mod10(a) # 0 THEN 0 ELSE 1 + TrailingZeros(Div10(a))

\* `(f as f64) * ((unit as f64) / scale)` is computed without any rounding:
\* scale, a power of ten, divides unit, and f and the product are below 2^53.
FractionExact(f, unit, scale) ==
  /\ scale <= TrailingZeros(unit)
  /\ Less(f, F64_EXACT)
  /\ Less(Mul(f, DivPow10(unit, scale)), F64_EXACT)

\* `((f as f64) * ((unit as f64) / scale)) as u64`, as the whole part of
\* f * unit / scale.  This is the f64 result wherever FractionExact holds.
fraction_part(f, unit, scale) == DivPow10(Mul(f, unit), scale)

\* The length of the unit symbol at the head of s: up to the next '.' or
\* digit.
RECURSIVE UnitLength(_)
UnitLength(s) ==
  IF s = <<>> \/ Head(s) = "." \/ IsDigit(Head(s)) THEN 0 ELSE 1 + UnitLength(Tail(s))

Invalid == [ok |-> FALSE, error |-> "Invalid"]

\* The `while !s.is_empty()` loop of try_from: one term per round, added to
\* d.  exact: every fraction so far was computed without rounding.
RECURSIVE Terms(_, _, _)

\* `Consume (\.[0-9]*)?`: the fraction after a '.', with post telling whether
\* a digit was taken, and (0, 1f64, false) when there is no '.'.
Fractions(s) ==
  IF s # <<>> /\ Head(s) = "."
    THEN LET lf == leading_fractions(Tail(s))
         IN  [x |-> lf.x, scale |-> lf.scale, rest |-> lf.rest,
              post |-> Len(lf.rest) # Len(Tail(s))]
    ELSE [x |-> <<>>, scale |-> 0, rest |-> s, post |-> FALSE]

\* The value of the term: v * unit, and the fraction part added when f > 0.
TermValue(v, lf, unit) ==
  LET whole == checked_mul(v, unit)
  IN  IF whole = None THEN None
      ELSE IF lf.x # <<>> THEN checked_add(whole[1], fraction_part(lf.x, unit, lf.scale))
      ELSE whole

\* d = d.checked_add(v)?, and the next round on what follows the unit.
TermAdd(rest, d, exact, v, lf, unit) ==
  LET value == TermValue(v, lf, unit)
      sum == IF value = None THEN None ELSE checked_add(d, value[1])
  IN  IF sum = None THEN Invalid
      ELSE Terms(rest, sum[1],
                 exact /\ (lf.x = <<>> \/ FractionExact(lf.x, unit, lf.scale)))

\* `Consume unit.`: the symbol up to the next '.' or digit.
TermUnit(d, exact, v, lf, r) ==
  LET unit == unit_base(SubSeq(lf.rest, 1, r))
  IN  IF r = 0 THEN [ok |-> FALSE, error |-> "MissingUnit"]
      ELSE IF unit = None THEN [ok |-> FALSE, error |-> "UnknownUnit"]
      ELSE TermAdd(SubSeq(lf.rest, r + 1, Len(lf.rest)), d, exact, v, lf, unit[1])

\* The round after leading_ints returned li for the text s.
TermDigits(s, d, exact, li, lf) ==
  IF li.x = None THEN Invalid
  ELSE IF Len(li.rest) = Len(s) /\ ~lf.post THEN Invalid
  ELSE TermUnit(d, exact, li.x[1], lf, UnitLength(lf.rest))

TermInts(s, d, exact, li) == TermDigits(s, d, exact, li, Fractions(li.rest))

Terms(s, d, exact) ==
  IF s = <<>> THEN [ok |-> TRUE, d |-> d, exact |-> exact]
  ELSE IF ~(Head(s) = "." \/ IsDigit(Head(s))) THEN Invalid
  ELSE TermInts(s, d, exact, leading_ints(s))

\* Mutant of SignedResult: the magnitude of a negative duration is held to
\* i64::MAX as well; i64::MIN has no case of its own.
SignedResultNoMin(neg, d) ==
  IF LessEq(d, I64_MAX) THEN Ok(DurationOf(neg, d)) ELSE Err("Invalid")

\* The final `match (neg, d)` of try_from.
SignedResult(neg, d) ==
  IF neg /\ d = I64_MIN_ABS THEN Ok(MIN)
  ELSE IF neg /\ Less(d, I64_MIN_ABS) THEN Ok(DurationOf(TRUE, d))
  ELSE IF ~neg /\ LessEq(d, I64_MAX) THEN Ok(DurationOf(FALSE, d))
  ELSE Err("Invalid")

\* The text without its sign, and whether the sign was '-'.
Unsigned(value) ==
  IF value # <<>> /\ Head(value) \in {"-", "+"}
    THEN [neg |-> Head(value) = "-", s |-> Tail(value)]
    ELSE [neg |-> FALSE, s |-> value]

\* impl TryFrom<&str> for Duration (FromStr::from_str calls it).
duration_try_from(value) ==
  LET u == Unsigned(value)
  IN  IF u.s = <<"0">> THEN Ok(ZERO)
      ELSE IF u.s = <<>> THEN Err("Invalid")
      ELSE LET t == Terms(u.s, <<>>, TRUE)
           IN  IF t.ok THEN SignedResult(u.neg, t.d) ELSE Err(t.error)

\* Every fraction of the text is computed by try_from without rounding.
ParsedExactly(value) ==
  LET t == Terms(Unsigned(value).s, <<>>, TRUE) IN t.ok /\ t.exact

\* Duration::whole_seconds: self.0 / 1_000_000_000, rounding towards zero.
whole_seconds(d) == DurationOf(d.neg, DivPow10(d.abs, 9))

\* a + b and a - b on signed numbers.
SignedAdd(a, b) ==
  IF a.neg = b.neg THEN DurationOf(a.neg, Add(a.abs, b.abs))
  ELSE IF LessEq(b.abs, a.abs) THEN DurationOf(a.neg, Sub(a.abs, b.abs))
  ELSE DurationOf(b.neg, Sub(b.abs, a.abs))

SignedSub(a, b) == SignedAdd(a, DurationOf(~b.neg, b.abs))

\* 2^31
I32_LIMIT == <<21, 4748, 3648>>

\* `nanos as i32` keeps a value that an i32 holds.
FitsI32(x) == Less(x.abs, I32_LIMIT)

\* impl From<Duration> for time::Duration: [seconds, nanoseconds] as handed
\* to time::Duration::new, which keeps them when they have one sign and the
\* nanoseconds are below one second; lossless tells whether that is so.
IntoTime(d) ==
  LET seconds == whole_seconds(d)
      nanos == SignedSub(d, DurationOf(seconds.neg, Mul(seconds.abs, SECOND)))
  IN  [seconds |-> seconds, nanoseconds |-> nanos,
       lossless |-> /\ FitsI32(nanos)
                    /\ Less(nanos.abs, SECOND)
                    /\ (seconds.abs = <<>> \/ nanos.abs = <<>> \/ seconds.neg = nanos.neg)]

\* time::Duration::whole_nanoseconds, an i128.
whole_nanoseconds(t) ==
  SignedAdd(DurationOf(t.seconds.neg, Mul(t.seconds.abs, SECOND)), t.nanoseconds)

\* impl TryFrom<time::Duration> for Duration: i64::try_from of the i128.
FromTime(t) ==
  LET n == whole_nanoseconds(t)
  IN  IF IsI64(n) THEN Ok(n) ELSE Err("TryFromIntError")

\* The durations that are formatted: hours, minutes, seconds and a rest
\* below a second, chosen at the borders of the units and of i64, with
\* either sign.
SampleHours == {0, 1, 5, 2562047}
SampleMinutes == {0, 4, 47, 59}
SampleSeconds == {0, 7, 16, 59}
SampleNanos ==
  {0, 1, 999, 1000, 1100, 999999, 1000000, 2200000, 300000000, 1000000,
   854775807, 854775808, 999999999}

DurationSamples ==
  {d \in {DurationOf(neg,
             Add(Add(Mul(FromInt(h), HOUR), Mul(FromInt(m), MINUTE)),
                 Add(Mul(FromInt(sec), SECOND), FromInt(n)))) :
             neg \in BOOLEAN, h \in SampleHours, m \in SampleMinutes,
             sec \in SampleSeconds, n \in SampleNanos} : IsI64(d)}

NoResults == [text |-> None, parsed |-> None, time |-> None, back |-> None]

\* Nothing is being converted.
DurIdle == durIn = ZERO /\ durOut = NoResults

DurInputs == durIn \in DurationSamples /\ durOut = NoResults

\* d.to_string()
Format ==
  /\ durOut.text = None
  /\ durOut' = [durOut EXCEPT !.text = Some(Display(durIn))]
  /\ UNCHANGED durIn
  /\ UNCHANGED notDur

\* Duration::from_str(string)
Parse ==
  /\ durOut.text # None
  /\ durOut.parsed = None
  /\ durOut' = [durOut EXCEPT !.parsed = Some(duration_try_from(durOut.text[1]))]
  /\ UNCHANGED durIn
  /\ UNCHANGED notDur

\* time::Duration::from(duration)
ConvertIntoTime ==
  /\ durOut.time = None
  /\ durOut' = [durOut EXCEPT !.time = Some(IntoTime(durIn))]
  /\ UNCHANGED durIn
  /\ UNCHANGED notDur

\* Duration::try_from(time_duration)
ConvertFromTime ==
  /\ durOut.time # None
  /\ durOut.back = None
  /\ durOut' = [durOut EXCEPT !.back = Some(FromTime(durOut.time[1]))]
  /\ UNCHANGED durIn
  /\ UNCHANGED notDur

(***************************************************************************)
(* Duration::try_from on text that was written term by term                *)
(* (meta/src/time_types/duration.rs).  The input is kept as it was         *)
(* written, a sign and a sequence of terms (digits, a point and digits,    *)
(* a unit), so that what the text means is known without parsing it.       *)
(***************************************************************************)

MaxTerms == 2

\* A term as written: the digits before the point as a number (None: no
\* digit), the n digits after the point as a number (None: no point), and
\* the unit symbol.
Term(i, fr, unit) == [int |-> i, frac |-> fr, unit |-> unit]
Fraction(n, f) == Some([n |-> n, f |-> f])

\* The decimal digits of a number, and the n digits of a fraction.
Decimal(v) == Reverse(int(<<>>, v))

RECURSIVE FracDigits(_, _)
FracDigits(n, f) ==
  IF n = 0 THEN <<>> ELSE Append(FracDigits(n - 1, Div10(f)), DigitByte(Mod10(f)))

TermText(tm) ==
  (IF tm.int = None THEN <<>> ELSE Decimal(tm.int[1]))
    \o (IF tm.frac = None THEN <<>>
        ELSE <<".">> \o FracDigits(tm.frac[1].n, tm.frac[1].f))
    \o tm.unit

RECURSIVE TermsText(_)
TermsText(terms) ==
  IF terms = <<>> THEN <<>> ELSE TermText(Head(terms)) \o TermsText(Tail(terms))

\* value: &str, the argument of try_from
Written(in) == in.sign \o TermsText(in.terms)

Signs == {<<>>, <<"+">>, <<"-">>}

\* The terms that are written: at the borders of u64 and of i64, with
\* fractions, without digits, without a unit and with a unit nobody knows.
SampleTerms ==
  { Term(Some(<<1>>), None, <<"n", "s">>),
    Term(Some(U64_MAX), None, <<"n", "s">>),
    Term(Some(Add(U64_MAX, <<1>>)), None, <<"n", "s">>),
    Term(Some(I64_MAX), None, <<"n", "s">>),
    Term(Some(I64_MIN_ABS), None, <<"n", "s">>),
    Term(Some(Add(I64_MIN_ABS, <<1>>)), None, <<"n", "s">>),
    Term(Some(FromInt(2562048)), None, <<"h">>),
    Term(Some(FromInt(5124095)), None, <<"h">>),
    Term(Some(FromInt(5124096)), None, <<"h">>),
    Term(Some(<<1>>), Fraction(1, FromInt(5)), <<"s">>),
    Term(Some(<<>>), Fraction(1, FromInt(5)), <<"n", "s">>),
    Term(None, Fraction(1, FromInt(5)), <<"m", "s">>),
    Term(Some(<<1>>), Fraction(0, <<>>), <<"h">>),
    Term(Some(FromInt(16)), Fraction(9, FromInt(854775807)), <<"s">>),
    Term(Some(<<1, 8446, 7440, 7370, 9551>>), Fraction(3, FromInt(999)), <<"u", "s">>),
    Term(Some(<<1>>), None, <<"x">>),
    Term(Some(<<1>>), None, <<>>),
    Term(Some(<<>>), None, <<>>),
    Term(None, None, <<"s">>),
    Term(None, Fraction(0, <<>>), <<"s">>) }

\* A term that is not the last has a unit, and a term that is not the first
\* starts with a digit or the point: the text of the sequence then reads as
\* these terms and no others.
Separate(terms) ==
  /\ \A i \in 1..(Len(terms) - 1) : terms[i].unit # <<>>
  /\ \A i \in 2..Len(terms) : terms[i].int # None \/ terms[i].frac # None

RECURSIVE TermSeqs(_)
TermSeqs(n) ==
  IF n = 0 THEN {<<>>}
  ELSE LET shorter == TermSeqs(n - 1)
       IN  shorter \cup {Append(ts, tm) : ts \in {x \in shorter : Len(x) = n - 1},
                                          tm \in SampleTerms}

ParseInputs ==
  {[sign |-> sg, terms |-> ts] : sg \in Signs, ts \in {x \in TermSeqs(MaxTerms) : Separate(x)}}

NotParsed == [try_from |-> None, from_str |-> None]

\* Nothing is being parsed.
ParseIdle == parseIn = [sign |-> <<>>, terms |-> <<>>] /\ parseOut = NotParsed

ParseTexts == parseIn \in ParseInputs /\ parseOut = NotParsed

\* Duration::try_from(value)
TryFrom ==
  /\ parseOut.try_from = None
  /\ parseOut' = [parseOut EXCEPT !.try_from = Some(duration_try_from(Written(parseIn)))]
  /\ UNCHANGED parseIn
  /\ UNCHANGED notParse

\* value.parse::<Duration>(): FromStr::from_str calls Duration::try_from.
FromStr ==
  /\ parseOut.from_str = None
  /\ parseOut' = [parseOut EXCEPT !.from_str = Some(duration_try_from(Written(parseIn)))]
  /\ UNCHANGED parseIn
  /\ UNCHANGED notParse

(***************************************************************************)
(* The stream of a started adapter (cap/src/lib.rs, the factory closure of *)
(* DynController::new).  The engine, kube's Controller::run, is the        *)
(* collaborator the closure hands its reconciler and error_policy to: it   *)
(* calls the reconciler for an object the watch delivers, calls            *)
(* error_policy with the error when the reconciler fails, and yields one   *)
(* result per reconcile and one per failure of the watch.  What the        *)
(* capability's reconcile returns is its own business and is drawn freely. *)
(***************************************************************************)

\* The adapters that are started: one for type 1 and one for type 2.
Running == {1, 2}

\* How many results the engines produce, all together.
MaxResults == 3

ObjectNames == {"x", "y"}
ReconcilerActions == {[requeue_after |-> None], [requeue_after |-> Some("5s")]}
Reports == {"report"}
WatcherErrors == {"watch"}

\* What C::reconcile returns: eyre::Result<ReconcilerAction>.
ReconcileResults == {Ok(a) : a \in ReconcilerActions} \cup {Err(e) : e \in Reports}

\* ObjectRef<R> of the adapter's resource type, and ObjectRef::erase.
ObjectRef(t, name) == [type |-> t, name |-> name]
erase(obj) ==
  [dyntype |-> [group |-> GroupOf(obj.type), kind |-> KindOf(obj.type)],
   name |-> obj.name]

ReportWrapper(report) == [wrapped |-> report]

\* controller::Error<ReportWrapper, watcher::Error>
ReconcilerFailed(err) == [tag |-> "ReconcilerFailed", err |-> err]
QueueError(err) == [tag |-> "QueueError", err |-> err]

\* Mutant of reconciler: a failure of the capability is turned into a
\* success that asks for nothing.
reconciler_swallow(res) ==
  IF res.ok THEN res ELSE Ok([requeue_after |-> None])

\* The reconciler closure: C::reconcile(..).map_err(ReportWrapper)
reconciler(res) ==
  IF res.ok THEN res ELSE Err(ReportWrapper(res.error))

\* The error_policy closure: C::error_policy(ctx.into_inner(), &error.0);
\* the entry of capCalls for the call.
error_policy(error) == [op |-> "error_policy", error |-> error.wrapped]

\* Mutant of MapResult: a failure is passed on as a failure of the watch.
MapResultRetag(r) ==
  IF r.ok THEN Ok(<<erase(r.value[1]), r.value[2]>>)
  ELSE Err(QueueError(r.error.err))

\* The closure of `.map`: Ok((obj, action)) => Ok((obj.erase(), action)),
\* Err(e) => Err(e)
MapResult(r) ==
  IF r.ok THEN Ok(<<erase(r.value[1]), r.value[2]>>) ELSE Err(r.error)

Idle == [pc |-> "idle", obj |-> None, err |-> None]

\* No adapter is started.
RunInit ==
  /\ engine = [a \in Running |-> [pc |-> "new", obj |-> None, err |-> None]]
  /\ raw = [a \in Running |-> <<>>]
  /\ emitted = [a \in Running |-> <<>>]
  /\ items = [a \in Running |-> <<>>]
  /\ capCalls = [a \in Running |-> <<>>]
  /\ stopped = FALSE

\* The engine of adapter a yields the result r.
Yield(a, r) ==
  /\ raw' = [raw EXCEPT ![a] = Append(@, r)]
  /\ emitted' = [emitted EXCEPT ![a] = Append(@, r)]

\* The results the engine of adapter a has produced or is about to.
InFlight(a) == Len(emitted[a]) + (IF engine[a].pc \in {"reconciling", "failed"} THEN 1 ELSE 0)

\* Another result may be produced.
MoreResults == InFlight(1) + InFlight(2) < MaxResults

\* The factory is called: the engine is built and handed the closures and
\* the shutdown future; the stream is returned.
Start(a) ==
  /\ engine[a].pc = "new"
  /\ engine' = [engine EXCEPT ![a] = Idle]
  /\ UNCHANGED <<raw, emitted, items, capCalls, stopped>>
  /\ UNCHANGED notRun

\* The watch delivers the object: the engine calls the reconciler.
WatchDelivers(a, name) ==
  /\ engine[a].pc = "idle"
  /\ ~stopped
  /\ MoreResults
  /\ engine' = [engine EXCEPT ![a] = [pc |-> "reconciling",
                                      obj |-> Some(ObjectRef(a, name)), err |-> None]]
  /\ UNCHANGED <<raw, emitted, items, capCalls, stopped>>
  /\ UNCHANGED notRun

\* C::reconcile returns res and the reconciler with it: a success is
\* yielded, a failure waits for error_policy.
ReconcileReturns(a, res) ==
  /\ engine[a].pc = "reconciling"
  /\ capCalls' = [capCalls EXCEPT ![a] =
                    Append(@, [op |-> "reconcile", obj |-> engine[a].obj[1], result |-> res])]
  /\ LET r == reconciler(res)
     IN  IF r.ok
           THEN /\ Yield(a, Ok(<<engine[a].obj[1], r.value>>))
                /\ engine' = [engine EXCEPT ![a] = Idle]
           ELSE /\ engine' = [engine EXCEPT ![a].pc = "failed", ![a].err = Some(r.error)]
                /\ UNCHANGED <<raw, emitted>>
  /\ UNCHANGED <<items, stopped>>
  /\ UNCHANGED notRun

\* The engine calls error_policy with the reconciler's error and yields the
\* failure.
ErrorPolicy(a) ==
  /\ engine[a].pc = "failed"
  /\ capCalls' = [capCalls EXCEPT ![a] = Append(@, error_policy(engine[a].err[1]))]
  /\ Yield(a, Err(ReconcilerFailed(engine[a].err[1])))
  /\ engine' = [engine EXCEPT ![a] = Idle]
  /\ UNCHANGED <<items, stopped>>
  /\ UNCHANGED notRun

\* The watch fails: the engine yields the failure.
WatchFails(a, w) ==
  /\ engine[a].pc = "idle"
  /\ ~stopped
  /\ MoreResults
  /\ capCalls' = [capCalls EXCEPT ![a] = Append(@, [op |-> "watch failed", error |-> w])]
  /\ Yield(a, Err(QueueError(w)))
  /\ UNCHANGED <<engine, items, stopped>>
  /\ UNCHANGED notRun

\* The shutdown future resolves.
Shutdown ==
  /\ ~stopped
  /\ stopped' = TRUE
  /\ UNCHANGED <<engine, raw, emitted, items, capCalls>>
  /\ UNCHANGED notRun

\* graceful_shutdown_on: after the shutdown the engine ends its stream.
EngineEnds(a) ==
  /\ engine[a].pc = "idle"
  /\ stopped
  /\ engine' = [engine EXCEPT ![a].pc = "ended"]
  /\ UNCHANGED <<raw, emitted, items, capCalls, stopped>>
  /\ UNCHANGED notRun

\* The adapter's stream is polled: the next result of the engine goes
\* through the map.
StreamNext(a) ==
  /\ raw[a] # <<>>
  /\ items' = [items EXCEPT ![a] = Append(@, MapResult(Head(raw[a])))]
  /\ raw' = [raw EXCEPT ![a] = Tail(@)]
  /\ UNCHANGED <<engine, emitted, capCalls, stopped>>
  /\ UNCHANGED notRun

(***************************************************************************)
(* record_condition calls that overlap.  The Recorder is shared by all     *)
(* controllers (&self, the gauges are atomics): a call is four             *)
(* `record(..)` statements, each one with_label_values(..).set(..), and    *)
(* between two of them another caller's statements may run.  All callers   *)
(* write the same key.                                                     *)
(***************************************************************************)

MaxWriters == 2
Writers == 1..MaxWriters

\* The object and the order of the `record` statements of record_condition.
RaceObject == [kind |-> Some("K"), name |-> Some("n"), namespace |-> Some("ns")]
RecordOrder == <<"True", "False", "Unknown", "Deleted">>

\* Mutant of RecordValue: the status gauges follow the status whether or not
\* the object is deleted.
RecordValueAnyway(k, cond, deleted) ==
  IF RecordOrder[k] = "Deleted" THEN deleted ELSE cond.status = RecordOrder[k]

\* The value the k-th `record` statement of a call writes.
RecordValue(k, cond, deleted) ==
  IF RecordOrder[k] = "Deleted" THEN deleted
  ELSE ~deleted /\ cond.status = RecordOrder[k]

RaceInit == writers = [w \in Writers |-> [pc |-> 0]]

\* A caller enters record_condition.
CallRecordCondition(w, cond, deleted) ==
  /\ writers[w].pc = 0
  /\ writers' = [writers EXCEPT ![w] = [pc |-> 1, cond |-> cond, deleted |-> deleted]]
  /\ UNCHANGED metricVars
  /\ UNCHANGED notRace

\* The caller's next `record` statement runs; after the fourth the call has
\* returned.
RecordStatement(w) ==
  /\ writers[w].pc \in DOMAIN RecordOrder
  /\ LET k == writers[w].pc
         c == writers[w]
     IN  /\ condition' = Record(condition, RaceObject, c.cond.type_, RecordOrder[k],
                                RecordValue(k, c.cond, c.deleted))
         /\ writers' = [writers EXCEPT ![w].pc = k + 1]
  /\ UNCHANGED <<suspend, duration, timers, lastCall>>
  /\ UNCHANGED notRace

(***************************************************************************)
(* The stream of Signal::watch read by a consumer of its own, item by      *)
(* item (Signal::shared reads one item only).                              *)
(***************************************************************************)

MaxArrived == 3    \* numbers the Signals stream is given over a run

\* Signals::new(Self::ALL) has succeeded; nothing has arrived.
WatchInit ==
  /\ sigQueue = <<>>
  /\ arrived = <<>>
  /\ yielded = <<>>

\* The Signals stream is given the number n.
Arrive(n) ==
  /\ Len(arrived) < MaxArrived
  /\ sigQueue' = Append(sigQueue, n)
  /\ arrived' = Append(arrived, n)
  /\ UNCHANGED yielded
  /\ UNCHANGED notWatch

\* stream.next() is polled: filter_map reads numbers until one converts,
\* which is the item, or until none waits, and the poll is Pending.
WatchPoll ==
  /\ LET n == WatchNext(sigQueue)
     IN  /\ sigQueue' = n.rest
         /\ yielded' = IF n.item # None THEN Append(yielded, n.item[1]) ELSE yielded
  /\ UNCHANGED arrived
  /\ UNCHANGED notWatch

(***************************************************************************)
(* Specifications.  The parts share no state in the source: main never     *)
(* asks for the shared signal, a Recorder is owned by its controller, and  *)
(* the annotation, enum and Duration code are libraries.  Each part is     *)
(* checked on its own, the others at rest.                                 *)
(***************************************************************************)

\* The state of every part at rest, except the inputs of the conversions.
BaseInit ==
  HostInit /\ SignalInit /\ MetricInit /\ AdapterInit /\ ReconcileInit /\ RunInit
    /\ RaceInit /\ WatchInit

Init == BaseInit /\ EnumIdle /\ DurIdle /\ ParseIdle

Next ==
  \/ \E t \in Types : Controller(t)
  \/ \E ok \in BOOLEAN : SetupReturns(ok)
  \/ \E ok \in BOOLEAN : TelemetrySetup(ok)
  \/ \E c \in Commands, parsed \in BOOLEAN : AppRun(c, parsed)
  \/ \E why \in ExitReasons : ClapExits(why)
  \/ Teardown

Spec == Init /\ [][Next]_vars

NextSignal ==
  \/ \E n \in SignalNumbers : Deliver(n)
  \/ \E c \in 1..MaxHandles : Clone(c)
  \/ \E c \in 1..MaxHandles : Poll(c)

SpecSignal == Init /\ [][NextSignal]_vars

NextMetrics ==
  \/ \E obj \in ObjectRefs, cond \in Conditions, deleted \in BOOLEAN :
       RecordCondition(obj, cond, deleted)
  \/ \E obj \in ObjectRefs, flag \in BOOLEAN : RecordSuspend(obj, flag)
  \/ \E obj \in ObjectRefs : RecordDuration(obj)
  \/ \E t \in 1..MaxTimers : ObserveDuration(t)
  \/ \E t \in 1..MaxTimers : ScopeExit(t)

SpecMetrics == Init /\ [][NextMetrics]_vars

NextAdapter ==
  \/ \E t \in Types : NewAdapter(t)
  \/ \E i \in 1..MaxAdapters : CallCrd(i)
  \/ \E i \in 1..MaxAdapters : CallFactory(i)
  \/ \E i \in 1..MaxAdapters : TakeInfo(i)

SpecAdapter == Init /\ [][NextAdapter]_vars

NextReconcile ==
  \/ \E key \in AnnotationKeys, value \in Tokens : InsertAnnotation(key, value)
  \/ \E key \in AnnotationKeys : RemoveAnnotation(key)
  \/ Handle

SpecReconcile == Init /\ [][NextReconcile]_vars

InitEnum == BaseInit /\ EnumInputs /\ DurIdle /\ ParseIdle

NextEnum ==
  \/ Serialize
  \/ DeserializeBack
  \/ Deserialize
  \/ TryFromStr

SpecEnum == InitEnum /\ [][NextEnum]_vars

InitDuration == BaseInit /\ EnumIdle /\ DurInputs /\ ParseIdle

NextDuration ==
  \/ Format
  \/ Parse
  \/ ConvertIntoTime
  \/ ConvertFromTime

SpecDuration == InitDuration /\ [][NextDuration]_vars

InitParse == BaseInit /\ EnumIdle /\ DurIdle /\ ParseTexts

NextParse ==
  \/ TryFrom
  \/ FromStr

SpecParse == InitParse /\ [][NextParse]_vars

NextRun ==
  \/ \E a \in Running : Start(a)
  \/ \E a \in Running, name \in ObjectNames : WatchDelivers(a, name)
  \/ \E a \in Running, res \in ReconcileResults : ReconcileReturns(a, res)
  \/ \E a \in Running : ErrorPolicy(a)
  \/ \E a \in Running, w \in WatcherErrors : WatchFails(a, w)
  \/ Shutdown
  \/ \E a \in Running : EngineEnds(a)
  \/ \E a \in Running : StreamNext(a)

SpecRun == Init /\ [][NextRun]_vars

NextRace ==
  \/ \E w \in Writers, cond \in Conditions, deleted \in BOOLEAN :
       CallRecordCondition(w, cond, deleted)
  \/ \E w \in Writers : RecordStatement(w)

SpecRace == Init /\ [][NextRace]_vars

NextWatch ==
  \/ \E n \in SignalNumbers : Arrive(n)
  \/ WatchPoll

SpecWatch == Init /\ [][NextWatch]_vars

(***************************************************************************)
(* Claims about the command surface and main, under Spec.                  *)
(***************************************************************************)

Finished == pc \in {"teardown", "done", "aborted"}

IdentityLine(t) == GroupOf(t) \o <<"/">> \o KindOf(t)

\* C1: after any sequence of controller(..) registrations, `crd list` prints
\* exactly one line per registration, in registration order, each line the
\* group/kind of the registered type; duplicates are kept and printed.
C1_ListInRegistrationOrder ==
  (Finished /\ cmd.command = Some("List")) =>
    /\ result = "ok"
    /\ Len(stdout) = Len(registered)
    /\ \A i \in 1..Len(registered) : stdout[i] = IdentityLine(registered[i])

\* `crd list` ran over a registry that holds the same identity twice (two
\* registrations of one type) and a second identity.
C1_Witness ==
  /\ pc = "done"
  /\ cmd.command = Some("List")
  /\ Len(registered) = 3
  /\ registered[1] = registered[3]
  /\ registered[1] # registered[2]

\* The registrations whose kind or group/kind is the text n.
MatchSet(n) ==
  {i \in 1..Len(registered) :
     KindOf(registered[i]) = n \/ IdentityLine(registered[i]) = n}

\* C2: `crd <name>` selects the first adapter in registration order whose kind
\* or group/kind equals <name> and prints that adapter's schema manifest; and
\* for an adapter that is the only one matching its kind and its group/kind,
\* `crd <kind>` and `crd <group/kind>` select the same adapter.
C2_FirstMatchSelected ==
  /\ (Finished /\ cmd.name # None /\ MatchSet(cmd.name[1]) # {}) =>
       /\ selected \in MatchSet(cmd.name[1])
       /\ \A j \in MatchSet(cmd.name[1]) : selected <= j
       /\ stdout = <<CrdOf(registered[selected])>>
       /\ result = "ok"
  /\ \A i \in 1..Len(registered) :
       (Cardinality(MatchSet(KindOf(registered[i]))
                      \cup MatchSet(IdentityLine(registered[i]))) = 1) =>
         /\ Find(controllers, KindOf(registered[i])) = i
         /\ Find(controllers, IdentityLine(registered[i])) = i

\* `crd g/K` ran with two matching adapters registered: first the type whose
\* kind is the text g/K, then the type of group g and kind K; and a third
\* adapter that alone matches both of its names.
C2_Witness ==
  /\ pc = "done"
  /\ cmd.name = Some(<<"g", "/", "K">>)
  /\ Cardinality(MatchSet(cmd.name[1])) = 2
  /\ selected = 1
  /\ \E i \in 1..Len(registered) :
       Cardinality(MatchSet(KindOf(registered[i]))
                     \cup MatchSet(IdentityLine(registered[i]))) = 1

\* The command cannot be served: `crd --all`, or `crd <name>` with no match.
Unservable ==
  \/ cmd.all
  \/ cmd.name # None /\ MatchSet(cmd.name[1]) = {}

\* C3: a command that cannot be served (`crd <name>` without a match, or
\* `crd --all`) ends in an error value that main returns, never in a panic.
C3_ErrorNotPanic ==
  (Finished /\ Unservable) => (result = "error" /\ pc # "aborted")

(***************************************************************************)
(* Claims about the shared shutdown signal, under SpecSignal.              *)
(***************************************************************************)

\* C4: the shared shutdown signal starts pending, is resolved at most once and
\* only after a termination signal was received, never returns to pending
\* once resolved, and a signal received after resolution changes nothing.
C4_OneShotMonotonic ==
  /\ shared = "idle"
  /\ [](/\ resolutions <= 1
        /\ (shared = "complete") <=> (resolutions = 1)
        /\ (shared = "complete") => (delivered >= 1))
  /\ [][(shared = "complete") =>
          (shared' = "complete" /\ resolutions' = resolutions /\ pending' = pending)]_vars

\* A second termination signal was received after a handle had observed the
\* resolution of the first, and the signal is resolved once.
C4_Witness ==
  /\ shared = "complete"
  /\ resolutions = 1
  /\ delivered = 2
  /\ \E c \in DOMAIN handles : handles[c].poll = "Ready" /\ handles[c].at = 1

ExpectedLabels(obj) ==
  << IF obj.kind = <<>> THEN "" ELSE obj.kind[1],
     IF obj.name = <<>> THEN "" ELSE obj.name[1],
     IF obj.namespace = <<>> THEN "" ELSE obj.namespace[1] >>

\* The condition gauge of status st for the key of (obj, ty) exists and is v.
StatusGauge(obj, ty, st, v) ==
  /\ ExpectedLabels(obj) \o <<ty, st>> \in DOMAIN condition
  /\ condition[ExpectedLabels(obj) \o <<ty, st>>] = v

StatusLabels == {"True", "False", "Unknown", "Deleted"}

\* Exactly one of the four gauges of the key is 1, the other three are 0.
ExactlyOne(obj, ty) ==
  \E one \in StatusLabels :
    /\ StatusGauge(obj, ty, one, 1)
    /\ \A st \in StatusLabels \ {one} : StatusGauge(obj, ty, st, 0)

LastWasCondition == lastCall.call.op = "record_condition"

\* C6 as stated: after every completed record_condition call exactly one of
\* the four status gauges of the key is 1 and the other three are 0, for
\* every status string and both values of deleted.
C6_ExactlyOneAnyStatus ==
  LastWasCondition => ExactlyOne(lastCall.call.obj, lastCall.call.cond.type_)

\* C6 as amended: after a completed record_condition call, exactly one of the
\* four gauges of the key is 1 and the others are 0 when deleted is true or
\* the status is "True", "False" or "Unknown"; for any other status with
\* deleted false all four gauges of the key are 0.
C6_ExactlyOneKnownStatus ==
  LastWasCondition =>
    LET c == lastCall.call IN
      IF c.deleted \/ c.cond.status \in {"True", "False", "Unknown"}
        THEN ExactlyOne(c.obj, c.cond.type_)
        ELSE \A st \in StatusLabels : StatusGauge(c.obj, c.cond.type_, st, 0)

\* record_condition ran with status "Unknown" and deleted false, right after
\* a different call: Unknown is the gauge at 1.
C6_Witness ==
  /\ LastWasCondition
  /\ ~lastCall.again
  /\ ~lastCall.call.deleted
  /\ lastCall.call.cond.status = "Unknown"
  /\ StatusGauge(lastCall.call.obj, lastCall.call.cond.type_, "Unknown", 1)

\* C7: record_condition with deleted = true leaves Deleted = 1 and True =
\* False = Unknown = 0 for the key, whatever the condition's status and
\* whatever the gauges held before.
C7_DeletedForcesDeleted ==
  (LastWasCondition /\ lastCall.call.deleted) =>
    LET c == lastCall.call IN
      /\ StatusGauge(c.obj, c.cond.type_, "Deleted", 1)
      /\ StatusGauge(c.obj, c.cond.type_, "True", 0)
      /\ StatusGauge(c.obj, c.cond.type_, "False", 0)
      /\ StatusGauge(c.obj, c.cond.type_, "Unknown", 0)

\* record_condition ran with deleted = true and a condition whose status is
\* "True".
C7_Witness ==
  /\ LastWasCondition
  /\ lastCall.call.deleted
  /\ lastCall.call.cond.status = "True"
  /\ StatusGauge(lastCall.call.obj, lastCall.call.cond.type_, "Deleted", 1)

\* C8: a record_condition call with the arguments of the call right before it
\* leaves every gauge of every key (and every other series) as it was.
C8_Idempotent ==
  [][lastCall'.again =>
       (condition' = condition /\ suspend' = suspend /\ duration' = duration)]_vars

\* record_condition ran twice in a row with the same arguments, status True.
C8_Witness ==
  /\ LastWasCondition
  /\ lastCall.again
  /\ StatusGauge(lastCall.call.obj, lastCall.call.cond.type_, "True", 1)

\* C9: every timer returned by record_duration commits exactly one sample to
\* the histogram series of its key over its life: none while it runs, one
\* once it was stopped explicitly or left its scope, and never a second one.
C9_OneSamplePerTimer ==
  /\ \A t \in DOMAIN timers :
       timers[t].samples = IF timers[t].ended THEN 1 ELSE 0
  /\ \A l \in DOMAIN duration :
       duration[l] = Cardinality({t \in DOMAIN timers :
                                    timers[t].labels = l /\ timers[t].ended})

\* Two timers of one key have ended, the last one by an explicit stop, and
\* the series of the key holds two samples.
C9_Witness ==
  /\ Len(timers) = 2
  /\ timers[1].labels = timers[2].labels
  /\ timers[1].ended /\ timers[2].ended
  /\ duration[timers[1].labels] = 2
  /\ lastCall.call.op = "observe_duration"

\* C10: record_condition, record_suspend and record_duration called for an
\* object whose kind, name or namespace is absent still record, under the
\* empty string for each absent label; no call is skipped.
C10_AbsentLabelsRecorded ==
  LET c == lastCall.call IN
    /\ c.op = "record_condition" =>
         \A st \in StatusLabels :
           ExpectedLabels(c.obj) \o <<c.cond.type_, st>> \in DOMAIN condition
    /\ c.op = "record_suspend" =>
         /\ ExpectedLabels(c.obj) \in DOMAIN suspend
         /\ suspend[ExpectedLabels(c.obj)] = IF c.flag THEN 1 ELSE 0
    /\ c.op = "record_duration" =>
         /\ ExpectedLabels(c.obj) \in DOMAIN duration
         /\ timers # <<>>
         /\ timers[Len(timers)].labels = ExpectedLabels(c.obj)
         /\ ~timers[Len(timers)].ended

\* All three calls were made for the object without kind, name and namespace:
\* its series exist under three empty labels, and its timer has committed.
C10_Witness ==
  /\ lastCall.call.op = "record_suspend"
  /\ lastCall.call.obj.namespace = None
  /\ <<"", "", "", "Ready", "True">> \in DOMAIN condition
  /\ <<"", "", "">> \in DOMAIN suspend
  /\ <<"", "", "">> \in DOMAIN duration
  /\ duration[<<"", "", "">>] = 1


(***************************************************************************)
(* Telemetry bracket and host lifecycle (cap/src/lib.rs, main)             *)
(***************************************************************************)

\* How often main has taken the step ev.
Count(ev) == Cardinality({i \in DOMAIN trace : trace[i] = ev})

\* main has returned to its caller.
Returned == pc = "done"

\* main is over: it returned, a panic unwound out of it, or clap ended the
\* process.
Ended == pc \in {"done", "aborted", "exited"}

\* C11: whenever main has returned, telemetry teardown has run exactly once,
\* whatever the path: command success, command error, failed startup, failed
\* telemetry setup.
C11_TeardownOnEveryPath == Returned => Count("teardown") = 1

\* The steps of main that belong to command dispatch (app.run and below).
DispatchSteps == {"dispatch", "arguments rejected"} \cup ExitReasons

\* C12: telemetry setup is called at most once, every step of command
\* dispatch comes after a successful setup, and after a failed setup there is
\* no dispatch, no schema supplier or factory has run, and main returns an
\* error.
C12_SetupOnceBeforeDispatch ==
  /\ Count("setup") + Count("setup failed") <= 1
  /\ \A i \in DOMAIN trace :
       trace[i] \in DispatchSteps => \E j \in 1..(i - 1) : trace[j] = "setup"
  /\ Count("setup failed") > 0 =>
       /\ \A i \in DOMAIN trace : trace[i] \notin DispatchSteps
       /\ \A i \in DOMAIN controllers : crdCalls[i] = 0 /\ startCalls[i] = 0
       /\ Returned /\ result = "error"

C12_Witness ==
  /\ Returned
  /\ Count("setup failed") = 1
  /\ Len(controllers) >= 1

\* main was run without an introspection command: the command line names no
\* subcommand.
RunAll == Count("no command") > 0

\* C13: a main that was run without an introspection command has opened
\* exactly one shutdown broadcaster and has started every registered adapter
\* exactly once.
C13_RunAllStartsEveryAdapter ==
  (RunAll /\ Ended) =>
     /\ Count("shared") = 1
     /\ \A i \in DOMAIN controllers : startCalls[i] = 1

\* C14: a host that was asked to run its adapters leaves Running only when
\* the shutdown signal has resolved, and is Terminated only after every
\* adapter has been started and torn down through Draining.
C14_TerminatedOnlyAfterDraining ==
  (RunAll /\ Ended) =>
     /\ shared = "complete"
     /\ Count("draining") = 1
     /\ \A i \in DOMAIN controllers : startCalls[i] = 1

\* C17: the identity of every registered adapter is the group and kind of
\* the type it was registered with, in every state: wherever it stands in the
\* registry, whatever was registered before or after it, and after dispatch.
C17_IdentityFixed ==
  /\ Len(controllers) = Len(registered)
  /\ \A i \in DOMAIN controllers :
       controllers[i].info = [group |-> GroupOf(registered[i]), kind |-> KindOf(registered[i])]

C17_Witness ==
  /\ Returned
  /\ Count("dispatch") = 1
  /\ Len(controllers) = 3
  /\ registered[1] = registered[3]
  /\ registered[1] # registered[2]

(***************************************************************************)
(* Claims about one adapter's closures, under SpecAdapter.                 *)
(***************************************************************************)

\* C15: over any sequence of operations on an adapter its factory has been
\* invoked at most once, and once it has been invoked no further start of
\* that adapter is possible.
C15_StartSingleUse ==
  \A i \in DOMAIN adapters :
    /\ adapters[i].starts <= 1
    /\ adapters[i].starts = 1 => ~ENABLED CallFactory(i)

C15_Witness ==
  \E i \in DOMAIN adapters :
    adapters[i].starts = 1 /\ adapters[i].factory = "called"

\* C16: an adapter whose schema has been obtained is as it was before: it
\* still has its identity, its schema can be obtained again, and it can
\* still be started if it had not been started.
C16_SchemaChangesNothing ==
  \A i \in DOMAIN adapters :
    adapters[i].crds >= 1 =>
      /\ adapters[i].info = Some(DynControllerNew(adapters[i].type).info)
      /\ ENABLED CallCrd(i)
      /\ adapters[i].starts = 0 => ENABLED CallFactory(i)

(***************************************************************************)
(* Claims about the reconcile request, under SpecReconcile.                *)
(***************************************************************************)

\* The request annotation holds a token other than the one it held when it
\* was last handled (absent counts as a value of its own).
ChangedSinceHandling ==
  IF RECONCILE_REQUEST_ANNOTATION \in DOMAIN annotations
    THEN atHandling # <<annotations[RECONCILE_REQUEST_ANNOTATION]>>
    ELSE atHandling # <<>>

\* C19: get_reconcile_annotation_value is None exactly when the request
\* annotation is absent and otherwise its value; the last handled value read
\* back is the one that was set; and the two differ exactly when the
\* annotation now holds a token other than the one last handled.
C19_ChangeDetected ==
  /\ get_reconcile_annotation_value(annotations) = None
       <=> RECONCILE_REQUEST_ANNOTATION \notin DOMAIN annotations
  /\ RECONCILE_REQUEST_ANNOTATION \in DOMAIN annotations =>
       get_reconcile_annotation_value(annotations)
         = Some(annotations[RECONCILE_REQUEST_ANNOTATION])
  /\ get_last_handled_reconcile_request(reqStatus) = atHandling
  /\ (get_reconcile_annotation_value(annotations)
         # get_last_handled_reconcile_request(reqStatus)) <=> ChangedSinceHandling

C19_Witness ==
  /\ atHandling # None
  /\ get_reconcile_annotation_value(annotations) # None
  /\ get_reconcile_annotation_value(annotations)
       # get_last_handled_reconcile_request(reqStatus)

(***************************************************************************)
(* Claims about str_enum!, under SpecEnum.                                 *)
(***************************************************************************)

\* C20: a variant serializes to the string of its declaration, and that
\* string deserializes to the same variant; two variants of an enum never
\* serialize to the same string; a text that is no declared value of the
\* enum is an error for Deserialize and for TryFrom<&str>, and a declared
\* value is not.
C20_StrEnumRoundTrip ==
  LET e == enumIn.enum
      v == Variant(e, enumIn.variant)
  IN  /\ enumOut.ser # None =>
           \E i \in DOMAIN Arms(e) :
              Arms(e)[i].var_name = enumIn.variant /\ enumOut.ser = Some(Arms(e)[i].var_val)
      /\ enumOut.back # None => enumOut.back = Some(Ok(v))
      /\ \A w \in Variants(e) : w # v => serialize(w) # serialize(v)
      /\ enumOut.de # None => (enumOut.de[1].ok <=> enumIn.text \in DeclaredValues(e))
      /\ enumOut.tf # None => (enumOut.tf[1].ok <=> enumIn.text \in DeclaredValues(e))
      /\ (enumOut.de # None /\ enumOut.tf # None /\ enumOut.de[1].ok) =>
           /\ enumOut.de[1] = enumOut.tf[1]
           /\ serialize(enumOut.de[1].value) = enumIn.text

C20_Witness ==
  /\ enumIn.enum = "meta::Condition"
  /\ enumIn.variant = "Reconciling"
  /\ enumIn.text = "ready"
  /\ enumOut.back = Some(Ok(Variant("meta::Condition", "Reconciling")))
  /\ enumOut.de # None /\ ~enumOut.de[1].ok
  /\ enumOut.tf # None /\ ~enumOut.tf[1].ok

(***************************************************************************)
(* Claims about Duration, under SpecDuration.                              *)
(***************************************************************************)

\* C18: the Display string of a Duration parses to that Duration, with every
\* fraction computed without rounding, and the time::Duration made of a
\* Duration converts back to it without loss.
C18_DurationRoundTrip ==
  /\ durOut.parsed # None =>
       /\ durOut.parsed = Some(Ok(durIn))
       /\ ParsedExactly(durOut.text[1])
  /\ durOut.time # None => durOut.time[1].lossless
  /\ durOut.back # None => durOut.back = Some(Ok(durIn))

\* Duration::MIN has gone both ways; its text is the one of the source's
\* test.
C18_Witness ==
  /\ durIn = MIN
  /\ durOut.text = Some(<<"-", "2", "5", "6", "2", "0", "4", "7", "h", "4", "7", "m",
                          "1", "6", ".", "8", "5", "4", "7", "7", "5", "8", "0", "8", "s">>)
  /\ durOut.parsed = Some(Ok(MIN))
  /\ durOut.back = Some(Ok(MIN))

\* In the calls of adapter a: a call of error_policy comes right after a
\* failed reconcile and carries its error, and a failed reconcile is
\* followed by error_policy, or is the last call with error_policy due.
Routed(a) ==
  LET c == capCalls[a]
  IN  /\ \A i \in DOMAIN c :
           c[i].op = "error_policy" =>
             /\ i > 1
             /\ c[i - 1].op = "reconcile"
             /\ ~c[i - 1].result.ok
             /\ c[i].error = c[i - 1].result.error
      /\ \A i \in DOMAIN c :
           (c[i].op = "reconcile" /\ ~c[i].result.ok) =>
             IF i < Len(c) THEN c[i + 1].op = "error_policy"
             ELSE engine[a].pc = "failed"

\* C21: error_policy is invoked only in response to a failed reconcile of
\* the same adapter, with that reconcile's error, and every failed reconcile
\* reaches error_policy exactly once; a successful reconcile and a failure
\* of the watch are never followed by error_policy.
C21_ErrorPolicyOnFailedReconcile == \A a \in Running : Routed(a)

C21_Witness ==
  \E a \in Running :
    /\ engine[a].pc = "ended"
    /\ Len(capCalls[a]) = 3
    /\ capCalls[a][1].op = "reconcile" /\ ~capCalls[a][1].result.ok
    /\ capCalls[a][2].op = "error_policy"
    /\ capCalls[a][3].op = "watch failed"
    /\ \E b \in Running :
         /\ b # a
         /\ Len(capCalls[b]) = 1
         /\ capCalls[b][1].op = "reconcile"
         /\ capCalls[b][1].result.ok

\* The i-th item of adapter a is the i-th result of its engine: a success
\* with the same object under the adapter's group and kind and the same
\* action, a failure unchanged.
SameResult(a, i) ==
  LET e == emitted[a][i]
      it == items[a][i]
  IN  /\ it.ok = e.ok
      /\ e.ok => /\ it.value[1].name = e.value[1].name
                 /\ it.value[1].dyntype = [group |-> GroupOf(a), kind |-> KindOf(a)]
                 /\ it.value[2] = e.value[2]
      /\ ~e.ok => it.error = e.error

\* C22: the adapter's stream is the engine's results one to one and in
\* order: nothing is added, dropped or reordered, a success keeps its object
\* and action, a failure keeps its tag and error.
C22_StreamIsEngineResults ==
  \A a \in Running :
    /\ Len(items[a]) + Len(raw[a]) = Len(emitted[a])
    /\ \A i \in DOMAIN items[a] : SameResult(a, i)
    /\ \A i \in DOMAIN raw[a] : raw[a][i] = emitted[a][Len(items[a]) + i]

C22_Witness ==
  \E a \in Running :
    /\ engine[a].pc = "ended"
    /\ raw[a] = <<>>
    /\ Len(items[a]) = 2
    /\ items[a][1].ok
    /\ items[a][1].value = <<[dyntype |-> [group |-> GroupOf(a), kind |-> KindOf(a)],
                              name |-> "y"], [requeue_after |-> Some("5s")]>>
    /\ ~items[a][2].ok
    /\ items[a][2].error.tag = "ReconcilerFailed"
    /\ items[a][2].error.err = ReportWrapper("report")
    /\ \E b \in Running : b # a /\ Len(items[b]) = 1 /\ ~items[b][1].ok

\* Every caller's record_condition has returned.
Completed == \A w \in Writers : writers[w].pc = Len(RecordOrder) + 1

\* The value the gauge st of the key holds after the call of w, had it run
\* alone: 1 for Deleted when deleted, for the status's gauge otherwise.
AloneValue(w, st) ==
  LET one == IF writers[w].deleted THEN "Deleted" ELSE writers[w].cond.status
  IN  IF st = one THEN 1 ELSE 0

\* Every call is one that, alone, leaves exactly one gauge at 1.
KnownStatuses ==
  \A w \in Writers :
    writers[w].deleted \/ writers[w].cond.status \in {"True", "False", "Unknown"}

\* C23 as stated: once all overlapping record_condition calls on a key have
\* completed, its four gauges hold what one of the calls would have produced
\* alone, so exactly one of them is 1.
C23_LastWriteWinsAsAWhole ==
  (Completed /\ KnownStatuses) =>
    /\ \E w \in Writers :
         \A st \in StatusLabels : StatusGauge(RaceObject, "Ready", st, AloneValue(w, st))
    /\ ExactlyOne(RaceObject, "Ready")

\* C23 as amended: once all overlapping record_condition calls on a key have
\* completed, each of its four gauges on its own holds what one of the calls
\* would have left in that gauge; the four need not come from one call.
C23_LastWriteWinsPerGauge ==
  Completed =>
    \A st \in StatusLabels :
      \E w \in Writers : StatusGauge(RaceObject, "Ready", st, AloneValue(w, st))

\* Calls with the statuses "True" and "False" have overlapped and completed,
\* and no gauge of the key is 1.
C23_Witness ==
  /\ Completed
  /\ \A w \in Writers : ~writers[w].deleted
  /\ \E w \in Writers : writers[w].cond.status = "True"
  /\ \E w \in Writers : writers[w].cond.status = "False"
  /\ \A st \in StatusLabels : StatusGauge(RaceObject, "Ready", st, 0)

\* The kind a termination signal number is delivered as.
KindOfNumber(n) ==
  IF n = 15 THEN "SigTerm" ELSE IF n = 2 THEN "SigInt" ELSE "SigQuit"

\* The items due for the numbers: one per SIGTERM, SIGINT and SIGQUIT, in
\* their order, none for another number.
RECURSIVE Due(_)
Due(numbers) ==
  IF numbers = <<>> THEN <<>>
  ELSE IF Head(numbers) \in {2, 3, 15}
         THEN <<KindOfNumber(Head(numbers))>> \o Due(Tail(numbers))
  ELSE Due(Tail(numbers))

\* The numbers filter_map has read: the arrived ones but those still waiting.
Read == SubSeq(arrived, 1, Len(arrived) - Len(sigQueue))

\* C24: Signal::watch yields, in arrival order, exactly the received
\* SIGTERM, SIGINT and SIGQUIT, each as its kind; another number yields
\* nothing and ends nothing: the numbers behind it are still delivered.
C24_WatchFiltersInOrder ==
  /\ sigQueue = SubSeq(arrived, Len(arrived) - Len(sigQueue) + 1, Len(arrived))
  /\ yielded = Due(Read)

C24_Witness ==
  /\ arrived = <<SIGHUP, SIGTERM, SIGINT>>
  /\ sigQueue = <<>>
  /\ yielded = <<"SigTerm", "SigInt">>

\* The step is a call of record_suspend.
SuspendStep == lastCall'.call.op = "record_suspend"

\* The suspend gauge of the call's key holds 1 for true and 0 for false, and
\* every other series is as it was: the suspend gauges of the other keys, the
\* condition gauges, the histograms and the running timers.
SuspendEffect ==
  LET key == ExpectedLabels(lastCall'.call.obj)
  IN  /\ key \in DOMAIN suspend'
      /\ suspend'[key] = IF lastCall'.call.flag THEN 1 ELSE 0
      /\ DOMAIN suspend' = DOMAIN suspend \cup {key}
      /\ \A l \in DOMAIN suspend \ {key} : suspend'[l] = suspend[l]
      /\ condition' = condition
      /\ duration' = duration
      /\ timers' = timers

\* C25: record_suspend(object, suspend) sets the suspend gauge of the key
\* (kind,name,namespace) to 1 for true and 0 for false, whatever it held,
\* and changes no other series.
C25_SuspendFrame == [][SuspendStep => SuspendEffect]_vars

\* record_suspend(_, false) has run on a key while the other key's suspend
\* gauge is 1 and condition gauges and a histogram exist.
C25_Witness ==
  /\ lastCall.call.op = "record_suspend"
  /\ ~lastCall.call.flag
  /\ suspend[ExpectedLabels(lastCall.call.obj)] = 0
  /\ \E l \in DOMAIN suspend : suspend[l] = 1
  /\ condition # <<>>
  /\ \E l \in DOMAIN duration : duration[l] > 0

\* The commands of the introspection surface: `crd list` and `crd <name>`.
IsCrdList == cmd.command = Some("List")

IsCrdName == cmd.name # None

\* C26: during `crd list` and `crd <name>` no adapter's start factory is
\* invoked, so no reconcile and no error_policy runs; `crd list` invokes no
\* schema supplier; `crd <name>` invokes the schema supplier of the matched
\* adapter only, exactly once, and none when no adapter matches.
C26_IntrospectionRunsNoController ==
  /\ \A i \in DOMAIN startCalls : startCalls[i] = 0
  /\ \A a \in Running : engine[a].pc = "new" /\ capCalls[a] = <<>>
  /\ IsCrdList => \A i \in DOMAIN crdCalls : crdCalls[i] = 0
  /\ IsCrdName =>
       /\ selected = Find(controllers, cmd.name[1])
       /\ \A i \in DOMAIN crdCalls :
            crdCalls[i] = IF i = selected THEN 1 ELSE 0

\* `crd <name>` has returned with three adapters registered, two of which
\* the name matches: the schema supplier of the first match ran once and
\* the suppliers of the others never; nothing was started.
C26_Witness ==
  /\ IsCrdName
  /\ result = "ok"
  /\ pc = "done"
  /\ Len(controllers) = 3
  /\ selected = 2
  /\ Matches(controllers[3], cmd.name[1])
  /\ crdCalls = <<0, 1, 0>>
  /\ startCalls = <<0, 0, 0>>

(***************************************************************************)
(* Claims about Duration::try_from on written text, under SpecParse.       *)
(***************************************************************************)

\* What a written term means.  A term counts when it has a digit and a unit
\* of the table; its whole number times the unit and its fraction of the
\* unit are then numbers of nanoseconds.
HasDigits(tm) == tm.int # None \/ (tm.frac # None /\ tm.frac[1].n > 0)

WellFormed(tm) == HasDigits(tm) /\ unit_base(tm.unit) # None

AllWellFormed(terms) == \A i \in DOMAIN terms : WellFormed(terms[i])

WholeOf(tm) == IF tm.int = None THEN <<>> ELSE tm.int[1]

UnitOf(tm) == unit_base(tm.unit)[1]

RECURSIVE Pow10(_)
Pow10(n) == IF n = 0 THEN <<1>> ELSE Mul(Pow10(n - 1), FromInt(10))

\* The term in nanoseconds, what is below one nanosecond cut off.
TermNanos(tm) ==
  Add(Mul(WholeOf(tm), UnitOf(tm)),
      IF tm.frac = None THEN <<>>
      ELSE DivPow10(Mul(tm.frac[1].f, UnitOf(tm)), tm.frac[1].n))

RECURSIVE SumNanos(_)
SumNanos(terms) ==
  IF terms = <<>> THEN <<>> ELSE Add(TermNanos(Head(terms)), SumNanos(Tail(terms)))

\* The term as it is written, nothing cut off, in 10^-9 nanoseconds (no
\* written fraction has more than 9 digits).
TermExact(tm) ==
  Add(Mul(Mul(WholeOf(tm), UnitOf(tm)), Pow10(9)),
      IF tm.frac = None THEN <<>>
      ELSE Mul(Mul(tm.frac[1].f, UnitOf(tm)), Pow10(9 - tm.frac[1].n)))

RECURSIVE SumExact(_)
SumExact(terms) ==
  IF terms = <<>> THEN <<>> ELSE Add(TermExact(Head(terms)), SumExact(Tail(terms)))

\* The largest magnitude an i64 of the sign holds.
Limit(neg) == IF neg THEN I64_MIN_ABS ELSE I64_MAX

Negative(in) == in.sign = <<"-">>

\* The text is the zero literal: "0" after the sign.
ZeroLiteral(in) == in.terms = <<Term(Some(<<>>), None, <<>>)>>

\* The term overflows a u64 where the parser computes: its whole number, the
\* whole number times the unit, that plus the fraction, or the running
\* total `before` plus the term.
TermOverflows(tm, before) ==
  \/ tm.int # None /\ Less(U64_MAX, tm.int[1])
  \/ /\ WellFormed(tm)
     /\ \/ Less(U64_MAX, Mul(WholeOf(tm), UnitOf(tm)))
        \/ Less(U64_MAX, TermNanos(tm))
        \/ Less(U64_MAX, Add(before, TermNanos(tm)))

\* Some term overflows and every term before it counts.
Overflows(terms) ==
  \E k \in DOMAIN terms :
    /\ AllWellFormed(SubSeq(terms, 1, k - 1))
    /\ TermOverflows(terms[k], SumNanos(SubSeq(terms, 1, k - 1)))

\* `(f as f64) * ((unit as f64) / scale)` is rounded, but too little to
\* change its whole part: f is an f64 without rounding, the quotient and
\* the product are rounded once each (2^-52 of the value together), the
\* value is below 10^6 and lies between a quarter and three quarters above
\* its whole part.
FractionFar(f, unit, scale) ==
  LET p == Mul(f, unit)
      q == DivPow10(p, scale)
      r == Sub(p, Mul(q, Pow10(scale)))
  IN  /\ Less(f, F64_EXACT)
      /\ Less(q, Pow10(6))
      /\ LessEq(Pow10(scale), Mul(r, <<4>>))
      /\ LessEq(Mul(r, <<4>>), Mul(Pow10(scale), <<3>>))

\* Wherever the parser computes a fraction of the written text, the whole
\* part of the f64 computation is the whole part of the exact one.
WithinF64(in) ==
  \A i \in DOMAIN in.terms :
    LET tm == in.terms[i]
    IN  tm.frac # None /\ unit_base(tm.unit) # None
          => \/ FractionExact(tm.frac[1].f, UnitOf(tm), tm.frac[1].n)
             \/ FractionFar(tm.frac[1].f, UnitOf(tm), tm.frac[1].n)

\* d is the signed sum of the terms: as written (exactly), or of the terms
\* in whole nanoseconds; and that sum is one an i64 holds.
IsSum(d, in, exactly) ==
  IF exactly
    THEN /\ LessEq(SumExact(in.terms), Mul(Limit(Negative(in)), Pow10(9)))
         /\ Mul(d.abs, Pow10(9)) = SumExact(in.terms)
         /\ d.abs # <<>> => d.neg = Negative(in)
    ELSE /\ LessEq(SumNanos(in.terms), Limit(Negative(in)))
         /\ d = DurationOf(Negative(in), SumNanos(in.terms))

\* What the result r of parsing the written input has to be.
NoWrap(r, in, exactly) ==
  /\ r.ok =>
       \/ ZeroLiteral(in) /\ r.value = ZERO
       \/ /\ in.terms # <<>>
          /\ AllWellFormed(in.terms)
          /\ IsSum(r.value, in, exactly)
  /\ Overflows(in.terms) => r = Err("Invalid")
  /\ (in.terms # <<>> /\ AllWellFormed(in.terms)
        /\ Less(Limit(Negative(in)), SumNanos(in.terms))) => r = Err("Invalid")
  /\ in.terms = <<>> => r = Err("Invalid")

Parsed == parseOut.try_from \o parseOut.from_str

\* C27 as stated: Duration::try_from returns Ok(d) only if the exact signed
\* sum of the unit terms of the text lies in [i64::MIN, i64::MAX] and d
\* equals that sum; an overflow of an integer part, of a term times its
\* unit, of the running total or of the final signed value yields Invalid,
\* and so does an empty or sign-only text.
C27_NoWrapExactSum ==
  \A i \in DOMAIN Parsed : NoWrap(Parsed[i], parseIn, TRUE)

\* C27 amended: the same, with d the signed sum of the terms each cut down
\* to whole nanoseconds (what a term holds below one nanosecond is dropped
\* term by term); every fraction of the written texts is computed by the
\* parser's f64 arithmetic without rounding.
C27_NoWrapNanosSum ==
  /\ WithinF64(parseIn)
  /\ \A i \in DOMAIN Parsed : NoWrap(Parsed[i], parseIn, FALSE)

\* "+9223372036854775807ns0.5ns" was parsed: the sum in whole nanoseconds
\* is i64::MAX, the half nanosecond is dropped, and the result is
\* Duration::MAX.
C27_Witness ==
  /\ parseIn.sign = <<"+">>
  /\ Len(parseIn.terms) = 2
  /\ parseIn.terms[1].int = Some(I64_MAX)
  /\ parseIn.terms[2].frac # None
  /\ TermExact(parseIn.terms[2]) # <<>>
  /\ TermNanos(parseIn.terms[2]) = <<>>
  /\ parseOut.try_from = Some(Ok(MAX))
  /\ parseOut.from_str = Some(Ok(MAX))
====
